---- MODULE Spec2Model ----
(***************************************************************************)
(* Model of the Timeseries container of the TalsimFEWSAdapter library      *)
(* (lib/timeseries.py): the nodes mapping with its metadata, the insertion,*)
(* cut, gap-filling and NaN-deleting operations, copy / copy_metadata and  *)
(* aggregate.                                                              *)
(*                                                                         *)
(* A timestamp (a naive datetime.datetime at a whole hour) is the integer  *)
(* yyyymmddhh, so that the integer order is the datetime order.  A value   *)
(* is an integer; the two negative numbers nan and nan_other stand for     *)
(* float NaN: nan is the object numpy.nan itself, nan_other is any other   *)
(* float whose value is NaN (np.isnan is true of both, "np.nan in list"    *)
(* finds only the first).                                                  *)
(***************************************************************************)
EXTENDS Integers, Sequences, FiniteSets, TLC

VARIABLES ts, ts2, op, pre, err, ret, pc

vars == <<ts, ts2, op, pre, err, ret, pc>>

-----------------------------------------------------------------------------
(* Bounds of the model *)

\* values inserted by the operations are 1..MaxVal and nan
MaxVal == 1

\* an operation that inserts nodes is only taken when it leaves at most
\* MaxLen nodes in the series
MaxLen == 4

\* how many nodes a drawn source series of aggregate / copy has at most
MaxNodes == 3

-----------------------------------------------------------------------------
(* datetime *)

DT(y, m, d, h) == ((y * 100 + m) * 100 + d) * 100 + h

Year(t) == t \div 1000000

Month(t) == (t \div 10000) % 100

Day(t) == (t \div 100) % 100

Hour(t) == t % 100

isleap(y) == (y % 4 = 0) /\ ((y % 100 # 0) \/ (y % 400 = 0))

\* calendar.monthrange(year, month)[1]
monthrange(y, m) ==
    IF m = 2 THEN (IF isleap(y) THEN 29 ELSE 28)
    ELSE IF m \in {4, 6, 9, 11} THEN 30 ELSE 31

\* whether t names a day that exists in its month
d_ok(t) == Day(t) >= 1 /\ Day(t) <= monthrange(Year(t), Month(t))

Min2(a, b) == IF a <= b THEN a ELSE b

\* add_months that keeps the year when December is passed
add_months_year_kept(sourcedate, months) ==
    DT(Year(sourcedate), ((Month(sourcedate) - 1 + months) % 12) + 1,
       Min2(Day(sourcedate),
            monthrange(Year(sourcedate), ((Month(sourcedate) - 1 + months) % 12) + 1)),
       Hour(sourcedate))

\* Timeseries.add_months(sourcedate, months), months >= 0
add_months(sourcedate, months) ==
    LET month0 == Month(sourcedate) - 1 + months
        year   == Year(sourcedate) + (month0 \div 12)
        month  == (month0 % 12) + 1
        day    == Min2(Day(sourcedate), monthrange(year, month))
    IN  DT(year, month, day, Hour(sourcedate))

\* t + datetime.timedelta(days=1)
add_day(t) ==
    IF Day(t) < monthrange(Year(t), Month(t))
    THEN DT(Year(t), Month(t), Day(t) + 1, Hour(t))
    ELSE IF Month(t) < 12
         THEN DT(Year(t), Month(t) + 1, 1, Hour(t))
         ELSE DT(Year(t) + 1, 1, 1, Hour(t))

\* t + datetime.timedelta(hours=1)
add_hour(t) ==
    IF Hour(t) < 23 THEN t + 1
    ELSE add_day(DT(Year(t), Month(t), Day(t), 0))

-----------------------------------------------------------------------------
(* values *)

\* numpy.nan, the object
nan == -1

\* a float NaN that is not the object numpy.nan (float("nan"), a computed NaN)
nan_other == -2

isnan(v) == v \in {nan, nan_other}

Values == (1 .. MaxVal) \cup {nan}

-----------------------------------------------------------------------------
(* the Timeseries object *)

Interpretation ==
    [Instantaneous |-> 1, BlockRight |-> 2, BlockLeft |-> 3, Cumulative |-> 4,
     CumulativePerTimestep |-> 5, Undefined |-> 99]

\* Timeseries(title)
Timeseries(title) ==
    [title |-> title, station_id |-> "0", station_name |-> "", param |-> "",
     unit |-> "", location |-> "", lat |-> 0, lon |-> 0, z |-> 0,
     interpretation |-> Interpretation.Undefined, nodes |-> <<>>]

MetaFields ==
    {"title", "station_id", "station_name", "param", "unit", "location",
     "lat", "lon", "z", "interpretation"}

\* the keys of a nodes mapping
keys(nodes) == DOMAIN nodes

RECURSIVE sorted(_)
\* sorted(S): the elements of S in increasing order
sorted(S) ==
    IF S = {} THEN <<>>
    ELSE LET m == CHOOSE x \in S : \A y \in S : x <= y
         IN  <<m>> \o sorted(S \ {m})

\* Timeseries.dates
dates(self) == sorted(keys(self.nodes))

\* Timeseries.values
values(self) == [i \in 1 .. Len(dates(self)) |-> self.nodes[dates(self)[i]]]

\* d[key] = value on a mapping
setitem(nodes, key, value) ==
    [k \in (DOMAIN nodes) \cup {key} |-> IF k = key THEN value ELSE nodes[k]]

\* del d[key] for every key of a set
delitems(nodes, ks) == [k \in (DOMAIN nodes) \ ks |-> nodes[k]]

-----------------------------------------------------------------------------
(* inputs of the operations *)

\* the timestamps the operations insert: the first of months 1 and 4 of a
\* leap year, two days three days apart, and the last day of a long month
Times == {DT(2020, 1, 1, 0), DT(2020, 1, 4, 0), DT(2020, 1, 31, 0), DT(2020, 4, 1, 0)}

\* the bounds handed to cut and cut_bisect: the timestamps the series may
\* hold, and bounds before, between and after them
CutBounds ==
    Times \cup {DT(2019, 12, 31, 0), DT(2020, 1, 3, 0), DT(2020, 12, 31, 0)}

\* the timestamp argument of add_node: a datetime.datetime (naive or with a
\* tzinfo), a datetime.date (yyyymmdd), or an object of another type
TimestampArgs ==
    {[kind |-> "datetime", val |-> t, tzinfo |-> tz] :
        t \in Times, tz \in {"None", "UTC"}}
    \cup {[kind |-> "date", val |-> t \div 100, tzinfo |-> "None"] :
            t \in {u \in Times : Hour(u) = 0}}
    \cup {[kind |-> "str", val |-> 0, tzinfo |-> "None"]}

NoTimestamp == [kind |-> "", val |-> 0, tzinfo |-> "None"]

NoOp ==
    [name |-> "", timestamp |-> NoTimestamp, value |-> 0, start |-> 0,
     end |-> 0, dt |-> "", interpretation |-> "", ignore_nan |-> FALSE,
     open_handles |-> {}]

-----------------------------------------------------------------------------
(* Timeseries.add_node, __setitem__ *)

\* datetime.datetime(timestamp.year, timestamp.month, timestamp.day) of a
\* date; a datetime is left as it is
to_datetime(timestamp) ==
    IF timestamp.kind = "datetime" THEN timestamp
    ELSE [kind |-> "datetime", val |-> timestamp.val * 100, tzinfo |-> "None"]

\* timestamp.replace(tzinfo=None): the fields are kept, the tzinfo dropped
replace_tzinfo_None(timestamp) == [timestamp EXCEPT !.tzinfo = "None"]

\* a datetime as key of the nodes mapping: a naive datetime is the number of
\* its fields; a datetime with a tzinfo is a key equal to no naive one, the
\* negative of that number
dict_key(timestamp) ==
    IF timestamp.tzinfo = "None" THEN timestamp.val ELSE -timestamp.val

\* the timestamp stored without the tzinfo being dropped
add_node_timestamp_keeping_tzinfo(timestamp) == dict_key(to_datetime(timestamp))

\* the timestamp add_node stores: a date becomes the datetime at midnight,
\* replace(tzinfo=None) keeps the fields and drops the tzinfo
add_node_timestamp(timestamp) ==
    dict_key(replace_tzinfo_None(to_datetime(timestamp)))

\* add_node without the check for a timestamp already present: the value of
\* an existing timestamp is overwritten
add_node_overwriting(self, timestamp, value) ==
    IF timestamp.kind \notin {"datetime", "date"}
    THEN [ts |-> self, err |-> "ValueError"]
    ELSE [ts |-> [self EXCEPT !.nodes =
                    setitem(@, add_node_timestamp(timestamp), value)],
          err |-> ""]

\* Timeseries.add_node(timestamp, value): [ts |-> the series afterwards,
\* err |-> the exception raised, "" for none]
add_node(self, timestamp, value) ==
    IF timestamp.kind \notin {"datetime", "date"}
    THEN [ts |-> self, err |-> "ValueError"]
    ELSE LET t == add_node_timestamp(timestamp)
         IN  IF t \in keys(self.nodes)
             THEN [ts |-> self, err |-> "KeyError"]
             ELSE [ts |-> [self EXCEPT !.nodes = setitem(@, t, value)],
                   err |-> ""]

\* Timeseries.__setitem__(key, value)
setitem_ts(self, key, value) == add_node(self, key, value)

\* ts.nodes[timestamp] = value, the assignment on the mapping itself
nodes_assign(self, t, value) == [self EXCEPT !.nodes = setitem(@, t, value)]

-----------------------------------------------------------------------------
(* Timeseries.start, Timeseries.end *)

\* start taking the last instead of the first of the sorted keys
start_taking_last(self) ==
    IF Len(sorted(keys(self.nodes))) = 0 THEN [ret |-> 0, err |-> "IndexError"]
    ELSE [ret |-> sorted(keys(self.nodes))[Len(sorted(keys(self.nodes)))],
          err |-> ""]

\* sorted(self.nodes.keys())[0]: IndexError on an empty series
start(self) ==
    IF Len(sorted(keys(self.nodes))) = 0 THEN [ret |-> 0, err |-> "IndexError"]
    ELSE [ret |-> sorted(keys(self.nodes))[1], err |-> ""]

\* sorted(self.nodes.keys())[-1]: IndexError on an empty series
end(self) ==
    IF Len(sorted(keys(self.nodes))) = 0 THEN [ret |-> 0, err |-> "IndexError"]
    ELSE [ret |-> sorted(keys(self.nodes))[Len(sorted(keys(self.nodes)))],
          err |-> ""]

-----------------------------------------------------------------------------
(* Timeseries.cut, Timeseries.cut_bisect *)

RECURSIVE cut_loop(_, _, _, _, _, _)
\* the loop of cut over self.dates from position i on
cut_loop(nodes, ds, i, start_, end_, new_nodes) ==
    IF i > Len(ds) THEN new_nodes
    ELSE IF ds[i] < start_
         THEN cut_loop(nodes, ds, i + 1, start_, end_, new_nodes)
         ELSE IF ds[i] > end_
              THEN new_nodes
              ELSE cut_loop(nodes, ds, i + 1, start_, end_,
                            setitem(new_nodes, ds[i], nodes[ds[i]]))

\* cut with an exclusive end: a node at end is dropped
cut_end_exclusive(self, start_, end_) ==
    [self EXCEPT !.nodes =
        [k \in {t \in keys(self.nodes) : start_ <= t /\ t < end_} |->
            self.nodes[k]]]

\* cut whose loop starts at the second date: the earliest node is always dropped
cut_skipping_first(self, start_, end_) ==
    [self EXCEPT !.nodes = cut_loop(self.nodes, dates(self), 2, start_, end_, <<>>)]

\* Timeseries.cut(start, end)
cut(self, start_, end_) ==
    [self EXCEPT !.nodes = cut_loop(self.nodes, dates(self), 1, start_, end_, <<>>)]

RECURSIVE bisect_loop(_, _, _, _)
\* bisect.bisect_left(a, x, lo, hi), indices counted from 0
bisect_loop(a, x, lo, hi) ==
    IF lo < hi
    THEN LET mid == (lo + hi) \div 2
         IN  IF a[mid + 1] < x THEN bisect_loop(a, x, mid + 1, hi)
             ELSE bisect_loop(a, x, lo, mid)
    ELSE lo

bisect_left(a, x, lo) == bisect_loop(a, x, lo, Len(a))

\* Timeseries.cut_bisect(start, end)
cut_bisect(self, start_, end_) ==
    LET ds      == dates(self)
        i_start == bisect_left(ds, start_, 0)
        i_end   == bisect_left(ds, end_, i_start)
        \* dates[i_start:i_end + 1]
        slice   == {ds[j + 1] : j \in {k \in i_start .. i_end : k < Len(ds)}}
    IN  [self EXCEPT !.nodes = [date \in slice |-> self.nodes[date]]]

-----------------------------------------------------------------------------
(* Timeseries.fill_gaps, count_value_nodes, delete_nan_nodes *)

RECURSIVE date_list_loop(_, _, _)
\* the while loop of fill_gaps: date_list grown until the next date passes end
date_list_loop(date_list, dt, end_) ==
    LET date == IF dt = "M" THEN add_months(date_list[Len(date_list)], 1)
                ELSE add_day(date_list[Len(date_list)])
    IN  IF date <= end_ THEN date_list_loop(Append(date_list, date), dt, end_)
        ELSE date_list

\* the date_list fill_gaps builds for a non-empty series
fill_gaps_date_list(self, dt) ==
    date_list_loop(<<start(self).ret>>, dt, end(self).ret)

\* fill_gaps assigning the missing value to every date of date_list, present
\* or not
fill_gaps_overwriting(self, dt) ==
    IF dt \notin {"d", "M"} THEN [ts |-> self, err |-> "ValueError"]
    ELSE IF start(self).err # "" THEN [ts |-> self, err |-> start(self).err]
    ELSE LET date_list == fill_gaps_date_list(self, dt)
             dates_all == {date_list[i] : i \in 1 .. Len(date_list)}
         IN  [ts |-> [self EXCEPT !.nodes =
                        [k \in keys(self.nodes) \cup dates_all |->
                            IF k \in dates_all THEN nan ELSE self.nodes[k]]],
              err |-> ""]

\* Timeseries.fill_gaps(dt)
fill_gaps(self, dt) ==
    IF dt \notin {"d", "M"} THEN [ts |-> self, err |-> "ValueError"]
    ELSE IF start(self).err # "" THEN [ts |-> self, err |-> start(self).err]
    ELSE LET date_list     == fill_gaps_date_list(self, dt)
             dates_all     == {date_list[i] : i \in 1 .. Len(date_list)}
             dates_missing == dates_all \ keys(self.nodes)
         IN  [ts |-> [self EXCEPT !.nodes =
                        [k \in keys(self.nodes) \cup dates_missing |->
                            IF k \in dates_missing THEN nan ELSE self.nodes[k]]],
              err |-> ""]

\* Timeseries.count_value_nodes()
count_value_nodes(self) ==
    Cardinality({i \in 1 .. Len(values(self)) : ~isnan(values(self)[i])})

\* delete_nan_nodes deleting only the earliest node whose value is NaN
delete_nan_nodes_first_only(self) ==
    LET dates_nan == {date \in keys(self.nodes) : isnan(self.nodes[date])}
    IN  [self EXCEPT !.nodes =
            delitems(@, {d \in dates_nan : \A e \in dates_nan : d <= e})]

\* Timeseries.delete_nan_nodes()
delete_nan_nodes(self) ==
    LET dates_nan == {date \in keys(self.nodes) : isnan(self.nodes[date])}
    IN  [self EXCEPT !.nodes = delitems(@, dates_nan)]

-----------------------------------------------------------------------------
(* The container operations as steps of a program that holds one series.   *)
(* The program calls one operation at a time (pc "ready" -> "done"); op,   *)
(* pre, err and ret record the call, the series before it, the exception   *)
(* it raised and the value it returned, until the caller goes on (Return). *)

Init ==
    /\ ts = Timeseries("")
    /\ ts2 = Timeseries("")
    /\ op = NoOp
    /\ pre = Timeseries("")
    /\ err = ""
    /\ ret = 0
    /\ pc = "ready"

AddNode(timestamp, value) ==
    /\ pc = "ready"
    /\ pc' = "done"
    /\ Cardinality(keys(add_node(ts, timestamp, value).ts.nodes)) <= MaxLen
    /\ op' = [NoOp EXCEPT !.name = "add_node", !.timestamp = timestamp,
                          !.value = value]
    /\ pre' = ts
    /\ ts' = add_node(ts, timestamp, value).ts
    /\ err' = add_node(ts, timestamp, value).err
    /\ ret' = 0
    /\ UNCHANGED ts2

SetItem(key, value) ==
    /\ pc = "ready"
    /\ pc' = "done"
    /\ Cardinality(keys(setitem_ts(ts, key, value).ts.nodes)) <= MaxLen
    /\ op' = [NoOp EXCEPT !.name = "__setitem__", !.timestamp = key,
                          !.value = value]
    /\ pre' = ts
    /\ ts' = setitem_ts(ts, key, value).ts
    /\ err' = setitem_ts(ts, key, value).err
    /\ ret' = 0
    /\ UNCHANGED ts2

NodesAssign(t, value) ==
    /\ pc = "ready"
    /\ pc' = "done"
    /\ Cardinality(keys(nodes_assign(ts, t, value).nodes)) <= MaxLen
    /\ op' = [NoOp EXCEPT !.name = "nodes_assign",
                          !.timestamp = [kind |-> "datetime", val |-> t,
                                         tzinfo |-> "None"],
                          !.value = value]
    /\ pre' = ts
    /\ ts' = nodes_assign(ts, t, value)
    /\ err' = ""
    /\ ret' = 0
    /\ UNCHANGED ts2

GetStart ==
    /\ pc = "ready"
    /\ pc' = "done"
    /\ op' = [NoOp EXCEPT !.name = "start"]
    /\ pre' = ts
    /\ ret' = start(ts).ret
    /\ err' = start(ts).err
    /\ UNCHANGED <<ts, ts2>>

GetEnd ==
    /\ pc = "ready"
    /\ pc' = "done"
    /\ op' = [NoOp EXCEPT !.name = "end"]
    /\ pre' = ts
    /\ ret' = end(ts).ret
    /\ err' = end(ts).err
    /\ UNCHANGED <<ts, ts2>>

Cut(start_, end_) ==
    /\ pc = "ready"
    /\ pc' = "done"
    /\ op' = [NoOp EXCEPT !.name = "cut", !.start = start_, !.end = end_]
    /\ pre' = ts
    /\ ts' = cut(ts, start_, end_)
    /\ err' = ""
    /\ ret' = 0
    /\ UNCHANGED ts2

CutBisect(start_, end_) ==
    /\ pc = "ready"
    /\ pc' = "done"
    /\ op' = [NoOp EXCEPT !.name = "cut_bisect", !.start = start_, !.end = end_]
    /\ pre' = ts
    /\ ts' = cut_bisect(ts, start_, end_)
    /\ err' = ""
    /\ ret' = 0
    /\ UNCHANGED ts2

FillGaps(dt) ==
    /\ pc = "ready"
    /\ pc' = "done"
    /\ Cardinality(keys(fill_gaps(ts, dt).ts.nodes)) <= MaxLen
    /\ op' = [NoOp EXCEPT !.name = "fill_gaps", !.dt = dt]
    /\ pre' = ts
    /\ ts' = fill_gaps(ts, dt).ts
    /\ err' = fill_gaps(ts, dt).err
    /\ ret' = 0
    /\ UNCHANGED ts2

CountValueNodes ==
    /\ pc = "ready"
    /\ pc' = "done"
    /\ op' = [NoOp EXCEPT !.name = "count_value_nodes"]
    /\ pre' = ts
    /\ ret' = count_value_nodes(ts)
    /\ err' = ""
    /\ UNCHANGED <<ts, ts2>>

DeleteNanNodes ==
    /\ pc = "ready"
    /\ pc' = "done"
    /\ op' = [NoOp EXCEPT !.name = "delete_nan_nodes"]
    /\ pre' = ts
    /\ ts' = delete_nan_nodes(ts)
    /\ err' = ""
    /\ ret' = 0
    /\ UNCHANGED ts2

\* the caller has looked at the outcome of the call and goes on
Return ==
    /\ pc = "done"
    /\ pc' = "ready"
    /\ op' = NoOp
    /\ pre' = Timeseries("")
    /\ err' = ""
    /\ ret' = 0
    /\ UNCHANGED <<ts, ts2>>

Next ==
    \/ \E timestamp \in TimestampArgs, value \in Values : AddNode(timestamp, value)
    \/ \E key \in {a \in TimestampArgs : a.tzinfo = "None"}, value \in Values :
          SetItem(key, value)
    \/ \E t \in Times, value \in Values : NodesAssign(t, value)
    \/ GetStart
    \/ GetEnd
    \/ \E start_ \in CutBounds, end_ \in CutBounds : Cut(start_, end_)
    \/ \E start_ \in CutBounds, end_ \in CutBounds : CutBisect(start_, end_)
    \/ \E dt \in {"d", "M", "h"} : FillGaps(dt)
    \/ CountValueNodes
    \/ DeleteNanNodes
    \/ Return

Spec == Init /\ [][Next]_vars

-----------------------------------------------------------------------------
(* Timeseries.copy, copy_metadata, aggregate *)

\* Timeseries.copy()
copy(self) ==
    [Timeseries(self.title) EXCEPT
        !.station_id = self.station_id, !.station_name = self.station_name,
        !.param = self.param, !.unit = self.unit, !.location = self.location,
        !.lat = self.lat, !.lon = self.lon, !.z = self.z,
        !.nodes = self.nodes]

\* Timeseries.copy_metadata(ts): self afterwards
copy_metadata(self, other) ==
    [self EXCEPT
        !.title = other.title, !.station_id = other.station_id,
        !.station_name = other.station_name, !.param = other.param,
        !.unit = other.unit, !.location = other.location,
        !.lat = other.lat, !.lon = other.lon, !.z = other.z]

RECURSIVE sum(_)
\* sum(values) of a list
sum(vs) == IF Len(vs) = 0 THEN 0 ELSE Head(vs) + sum(Tail(vs))

\* a float is kept as a whole number of 1/Scale, so that the mean of up to
\* five floats drawn as whole numbers is exact
Scale == 3 * 4 * 5

Float(n) == n * Scale

\* agg_value dividing the sum of the values that are not NaN by the number
\* of all the values collected
agg_value_mean_of_all(vals, interpretation, ignore_nan) ==
    IF \/ (~ignore_nan /\ \E i \in 1 .. Len(vals) : vals[i] = nan)
       \/ \A i \in 1 .. Len(vals) : isnan(vals[i])
    THEN nan
    ELSE LET kept == SelectSeq(vals, LAMBDA v : ~isnan(v))
         IN  IF interpretation = "Sum" THEN sum(kept)
             ELSE sum(kept) \div Len(vals)

\* the aggregate of one full timestep (lines 493-503)
agg_value(vals, interpretation, ignore_nan) ==
    IF \/ (~ignore_nan /\ \E i \in 1 .. Len(vals) : vals[i] = nan)
       \/ \A i \in 1 .. Len(vals) : isnan(vals[i])
    THEN nan
    ELSE LET kept == SelectSeq(vals, LAMBDA v : ~isnan(v))
         IN  IF interpretation = "Sum" THEN sum(kept)
             ELSE sum(kept) \div Len(kept)

\* the next timestamp of aggregation after t
t_next_of(t, dt) ==
    IF dt = "h" THEN add_hour(t)
    ELSE IF dt = "d" THEN add_day(t)
    ELSE add_months(t, 1)

RECURSIVE aggregate_loop(_, _, _, _, _, _, _, _, _)
\* the loop of aggregate over the nodes in date order, from position i on
aggregate_loop(nodes, ds, i, dt, start_, interpretation, ignore_nan, st, nodes_agg) ==
    IF i > Len(ds) THEN nodes_agg
    ELSE IF ds[i] < start_
         THEN aggregate_loop(nodes, ds, i + 1, dt, start_, interpretation,
                             ignore_nan, st, nodes_agg)
         ELSE IF ds[i] >= t_next_of(st.t, dt)
              THEN aggregate_loop(nodes, ds, i + 1, dt, start_, interpretation,
                                  ignore_nan,
                                  [t |-> t_next_of(st.t, dt),
                                   values |-> <<nodes[ds[i]]>>],
                                  setitem(nodes_agg, st.t,
                                          agg_value(st.values, interpretation,
                                                    ignore_nan)))
              ELSE aggregate_loop(nodes, ds, i + 1, dt, start_, interpretation,
                                  ignore_nan,
                                  [st EXCEPT !.values = Append(@, nodes[ds[i]])],
                                  nodes_agg)

\* Timeseries.aggregate(dt, start, interpretation, ignore_nan):
\* [ts |-> the series returned, err |-> the exception raised]
aggregate(self, dt, start_, interpretation, ignore_nan) ==
    IF dt \notin {"h", "d", "M"} \/ interpretation \notin {"LinearInterpolation", "Sum"}
    THEN [ts |-> Timeseries(""), err |-> "ValueError"]
    ELSE LET nodes_agg == aggregate_loop(self.nodes, dates(self), 1, dt, start_,
                                         interpretation, ignore_nan,
                                         [t |-> start_, values |-> <<>>], <<>>)
             copied == copy_metadata(Timeseries(""), self)
         IN  [ts |-> [copied EXCEPT !.title = @ \o " (" \o dt \o ")",
                                    !.nodes = nodes_agg],
              err |-> ""]

RECURSIVE aggregate_buckets(_, _, _, _, _, _)
\* the timesteps the loop of aggregate closes, each with the timestamps of the
\* nodes whose values it had collected in the list values when it closed
\* (st = [t, dates]): the same walk as aggregate_loop
aggregate_buckets(ds, i, dt, start_, st, buckets) ==
    IF i > Len(ds) THEN buckets
    ELSE IF ds[i] < start_
         THEN aggregate_buckets(ds, i + 1, dt, start_, st, buckets)
         ELSE IF ds[i] >= t_next_of(st.t, dt)
              THEN aggregate_buckets(ds, i + 1, dt, start_,
                                     [t |-> t_next_of(st.t, dt), dates |-> {ds[i]}],
                                     setitem(buckets, st.t, st.dates))
              ELSE aggregate_buckets(ds, i + 1, dt, start_,
                                     [st EXCEPT !.dates = @ \cup {ds[i]}],
                                     buckets)

-----------------------------------------------------------------------------
(* A program that derives a second series from a given one: the source     *)
(* series and the arguments are drawn from bounded sets.                   *)

\* metadata of the drawn series: as constructed, and set by a decoder
Metas ==
    {Timeseries(""),
     [Timeseries("Q") EXCEPT !.station_id = "7", !.station_name = "S",
        !.param = "Q", !.unit = "m3/s", !.location = "L", !.lat = 51,
        !.lon = 7, !.z = 3, !.interpretation = Interpretation.Instantaneous],
     [Timeseries("P") EXCEPT !.unit = "mm",
        !.interpretation = Interpretation.BlockRight]}

\* the timestamps of the drawn source series
AggTimes ==
    {DT(2021, 1, 1, 0), DT(2021, 1, 1, 1), DT(2021, 1, 2, 0), DT(2021, 2, 1, 0),
     DT(2021, 3, 15, 0)}

AggValues == {Float(v) : v \in 1 .. MaxVal} \cup {nan, nan_other}

\* the daily series with values 1, 2, 3, 4 from 2021-01-01
ScenarioDaily ==
    [t \in {DT(2021, 1, d, 0) : d \in 1 .. 4} |-> Float(Day(t))]

\* a month of three nodes, the second of them missing, closed by a node of
\* the next month
ScenarioMissing ==
    (DT(2021, 1, 1, 0) :> Float(1)) @@ (DT(2021, 1, 1, 1) :> nan)
    @@ (DT(2021, 1, 2, 0) :> Float(3)) @@ (DT(2021, 2, 1, 0) :> Float(4))

SourceNodes ==
    UNION {[S -> AggValues] : S \in {T \in SUBSET AggTimes : Cardinality(T) <= MaxNodes}}
    \cup {ScenarioDaily, ScenarioMissing}

AggStarts == {DT(2021, 1, 1, 0), DT(2021, 1, 2, 0)}

InitDerive ==
    /\ ts \in {[m EXCEPT !.nodes = n] : m \in Metas, n \in SourceNodes}
    /\ ts2 = [Timeseries("old") EXCEPT !.interpretation = Interpretation.Cumulative,
                                       !.nodes = DT(2021, 1, 1, 0) :> Float(1)]
    /\ op = NoOp
    /\ pre = Timeseries("")
    /\ err = ""
    /\ ret = 0
    /\ pc = "ready"

\* ts2 = ts.copy()
Copy ==
    /\ pc = "ready"
    /\ pc' = "done"
    /\ op' = [NoOp EXCEPT !.name = "copy"]
    /\ pre' = ts
    /\ ts2' = copy(ts)
    /\ err' = ""
    /\ ret' = 0
    /\ UNCHANGED ts

\* ts2.copy_metadata(ts)
CopyMetadata ==
    /\ pc = "ready"
    /\ pc' = "done"
    /\ op' = [NoOp EXCEPT !.name = "copy_metadata"]
    /\ pre' = ts2
    /\ ts2' = copy_metadata(ts2, ts)
    /\ err' = ""
    /\ ret' = 0
    /\ UNCHANGED ts

\* ts2 = ts.aggregate(dt, start, interpretation, ignore_nan)
Aggregate(dt, start_, interpretation, ignore_nan) ==
    /\ pc = "ready"
    /\ pc' = "done"
    /\ op' = [NoOp EXCEPT !.name = "aggregate", !.dt = dt, !.start = start_,
                          !.interpretation = interpretation,
                          !.ignore_nan = ignore_nan]
    /\ pre' = ts
    /\ LET r == aggregate(ts, dt, start_, interpretation, ignore_nan)
       IN  /\ ts2' = (IF r.err = "" THEN r.ts ELSE ts2)
           /\ err' = r.err
    /\ ret' = 0
    /\ UNCHANGED ts

NextDerive ==
    \/ Copy
    \/ CopyMetadata
    \/ \E dt \in {"h", "d", "M", "w"}, start_ \in AggStarts,
          interpretation \in {"Sum", "LinearInterpolation", "Mean"},
          ignore_nan \in BOOLEAN :
            Aggregate(dt, start_, interpretation, ignore_nan)

SpecDerive == InitDerive /\ [][NextDerive]_vars

-----------------------------------------------------------------------------
(* Timeseries.synchronize, Timeseries.calculate_quality *)

\* synchronize deleting the unwanted nodes from the series handed in instead
\* of from copies of them
synchronize_in_place(ts1, ts2_) ==
    LET ts1_dates == keys(ts1.nodes)
        ts2_dates == keys(ts2_.nodes)
        ts1_sync  == [ts1 EXCEPT !.nodes = delitems(@, ts1_dates \ ts2_dates)]
        ts2_sync  == [ts2_ EXCEPT !.nodes = delitems(@, ts2_dates \ ts1_dates)]
    IN  [ts1 |-> ts1_sync, ts2 |-> ts2_sync,
         ts1_sync |-> ts1_sync, ts2_sync |-> ts2_sync]

\* synchronize that removes from the first series only
synchronize_first_only(ts1, ts2_) ==
    LET ts1_dates == keys(ts1.nodes)
        ts2_dates == keys(ts2_.nodes)
        ts1_sync  == [copy(ts1) EXCEPT !.nodes = delitems(@, ts1_dates \ ts2_dates)]
    IN  [ts1 |-> ts1, ts2 |-> ts2_,
         ts1_sync |-> ts1_sync, ts2_sync |-> copy(ts2_)]

\* Timeseries.synchronize(ts1, ts2): the two series returned, and the two
\* series handed in as they are afterwards (the nodes are deleted from the
\* dict of the copies, which copy() made anew)
synchronize(ts1, ts2_) ==
    LET ts1_dates == keys(ts1.nodes)
        ts2_dates == keys(ts2_.nodes)
        ts1_sync  == [copy(ts1) EXCEPT !.nodes = delitems(@, ts1_dates \ ts2_dates)]
        ts2_sync  == [copy(ts2_) EXCEPT !.nodes = delitems(@, ts2_dates \ ts1_dates)]
    IN  [ts1 |-> ts1, ts2 |-> ts2_,
         ts1_sync |-> ts1_sync, ts2_sync |-> ts2_sync]

\* a float that a division gave: a ratio num / den with den > 0, NaN, or an
\* infinity with its sign in num
Finite(num, den) == [kind |-> "finite", num |-> num, den |-> den]

NaN == [kind |-> "nan", num |-> 0, den |-> 1]

Inf(sign) == [kind |-> "inf", num |-> sign, den |-> 1]

sgn(x) == IF x > 0 THEN 1 ELSE IF x < 0 THEN -1 ELSE 0

\* num / den of two numpy floats: a zero divisor gives NaN or an infinity
\* (with a warning), never an exception
np_divide(num, den) ==
    IF den = 0 THEN (IF num = 0 THEN NaN ELSE Inf(sgn(num)))
    ELSE IF den > 0 THEN Finite(num, den) ELSE Finite(-num, -den)

\* 1 - x
one_minus(x) ==
    IF x.kind = "finite" THEN Finite(x.den - x.num, x.den)
    ELSE IF x.kind = "nan" THEN NaN ELSE Inf(-x.num)

\* the metrics of a call that raised
NoMetrics == [nse |-> NaN, bias |-> NaN, rmse2 |-> NaN, corrcoef2 |-> NaN,
              corrcoef_sign |-> 0]

\* metrics with the ratio of the squared sums as nse, without "1 -"
metrics_nse_ratio(obs, sim) ==
    LET n    == Len(obs)
        So   == sum(obs)
        Ss   == sum(sim)
        sse  == sum([i \in 1 .. n |-> (sim[i] - obs[i]) * (sim[i] - obs[i])])
        sst  == sum([i \in 1 .. n |-> (n * obs[i] - So) * (n * obs[i] - So)])
        sss  == sum([i \in 1 .. n |-> (n * sim[i] - Ss) * (n * sim[i] - Ss)])
        cov  == sum([i \in 1 .. n |-> (n * obs[i] - So) * (n * sim[i] - Ss)])
    IN  [nse  |-> np_divide(n * n * sse, sst),
         bias |-> np_divide(100 * (Ss - So), So),
         rmse2 |-> np_divide(sse, n),
         corrcoef2 |-> np_divide(cov * cov, sst * sss),
         corrcoef_sign |-> sgn(cov)]

\* the metrics calculate_quality computes from the arrays obs and sim of
\* equal length n >= 1 (lines 1267-1283); sums of float arrays are numpy
\* floats.  Every ratio is kept exact: with So = sum(obs), the sum of the
\* squared deviations from the mean is sst / n^2 where
\* sst = sum((n * obs - So)^2).  rmse2 is the square of rmse, corrcoef2 the
\* square of corrcoef, corrcoef_sign its sign.
metrics(obs, sim) ==
    LET n    == Len(obs)
        So   == sum(obs)
        Ss   == sum(sim)
        sse  == sum([i \in 1 .. n |-> (sim[i] - obs[i]) * (sim[i] - obs[i])])
        sst  == sum([i \in 1 .. n |-> (n * obs[i] - So) * (n * obs[i] - So)])
        sss  == sum([i \in 1 .. n |-> (n * sim[i] - Ss) * (n * sim[i] - Ss)])
        cov  == sum([i \in 1 .. n |-> (n * obs[i] - So) * (n * sim[i] - Ss)])
    IN  [nse  |-> one_minus(np_divide(n * n * sse, sst)),
         bias |-> np_divide(100 * (Ss - So), So),
         rmse2 |-> np_divide(sse, n),
         corrcoef2 |-> np_divide(cov * cov, sst * sss),
         corrcoef_sign |-> sgn(cov)]

\* calculate_quality that keeps the synchronized series in the series handed
\* in
calculate_quality_sync_inputs(ts_obs, ts_sim) ==
    LET obs_del == delete_nan_nodes(ts_obs)
        sim_del == delete_nan_nodes(ts_sim)
        sync    == synchronize_in_place(obs_del, sim_del)
        obs     == values(sync.ts1_sync)
        sim     == values(sync.ts2_sync)
    IN  [ts_obs |-> sync.ts1, ts_sim |-> sync.ts2,
         dates |-> dates(sync.ts1_sync), obs |-> obs, sim |-> sim,
         err |-> IF Len(obs) = 0 THEN "ZeroDivisionError" ELSE "",
         metrics |-> IF Len(obs) = 0 THEN NoMetrics ELSE metrics(obs, sim)]

\* Timeseries.calculate_quality(ts_obs, ts_sim): the two series handed in as
\* they are afterwards, the timestamps and the arrays the metrics are
\* computed over, the exception raised and the metrics.  On empty arrays the
\* builtin sum gives the int 0 and line 1268 divides 0 by 0:
\* ZeroDivisionError.
calculate_quality(ts_obs, ts_sim) ==
    LET obs_del == delete_nan_nodes(ts_obs)
        sim_del == delete_nan_nodes(ts_sim)
        sync    == synchronize(obs_del, sim_del)
        obs     == values(sync.ts1_sync)
        sim     == values(sync.ts2_sync)
    IN  [ts_obs |-> sync.ts1, ts_sim |-> sync.ts2,
         dates |-> dates(sync.ts1_sync), obs |-> obs, sim |-> sim,
         err |-> IF Len(obs) = 0 THEN "ZeroDivisionError" ELSE "",
         metrics |-> IF Len(obs) = 0 THEN NoMetrics ELSE metrics(obs, sim)]

-----------------------------------------------------------------------------
(* A program that compares two given series: the observed series ts and    *)
(* the simulated series ts2 are drawn from bounded sets.                   *)

\* the values of the compared series are 0..MaxObs and nan
MaxObs == 3

QTimes == {DT(2020, 1, 1, 0), DT(2020, 1, 2, 0), DT(2020, 1, 3, 0)}

QNodes == UNION {[S -> (0 .. MaxObs) \cup {nan}] : S \in SUBSET QTimes}

NoResult ==
    [ts_obs |-> Timeseries(""), ts_sim |-> Timeseries(""), dates |-> <<>>,
     obs |-> <<>>, sim |-> <<>>, err |-> "", metrics |-> NoMetrics,
     ts1_sync |-> Timeseries(""), ts2_sync |-> Timeseries("")]

InitQuality ==
    /\ ts \in {[Timeseries("obs") EXCEPT !.nodes = n] : n \in QNodes}
    /\ ts2 \in {[Timeseries("sim") EXCEPT !.nodes = n] : n \in QNodes}
    /\ op = NoOp
    /\ pre = [ts1 |-> Timeseries(""), ts2 |-> Timeseries("")]
    /\ err = ""
    /\ ret = NoResult
    /\ pc = "ready"

\* ret = Timeseries.synchronize(ts, ts2)
Synchronize ==
    /\ pc = "ready"
    /\ pc' = "done"
    /\ op' = [NoOp EXCEPT !.name = "synchronize"]
    /\ pre' = [ts1 |-> ts, ts2 |-> ts2]
    /\ LET r == synchronize(ts, ts2)
       IN  /\ ts' = r.ts1
           /\ ts2' = r.ts2
           /\ ret' = [NoResult EXCEPT !.ts1_sync = r.ts1_sync,
                                      !.ts2_sync = r.ts2_sync]
    /\ err' = ""

\* ret = Timeseries.synchronize(*ret): the two series a call of synchronize
\* returned are synchronized again
SynchronizeAgain ==
    /\ pc = "done"
    /\ op.name = "synchronize"
    /\ pc' = "done again"
    /\ op' = [NoOp EXCEPT !.name = "synchronize again"]
    /\ pre' = [ts1 |-> ret.ts1_sync, ts2 |-> ret.ts2_sync]
    /\ LET r == synchronize(ret.ts1_sync, ret.ts2_sync)
       IN  ret' = [NoResult EXCEPT !.ts1_sync = r.ts1_sync,
                                   !.ts2_sync = r.ts2_sync]
    /\ err' = ""
    /\ UNCHANGED <<ts, ts2>>

\* ret = Timeseries.calculate_quality(ts, ts2)
CalculateQuality ==
    /\ pc = "ready"
    /\ pc' = "done"
    /\ op' = [NoOp EXCEPT !.name = "calculate_quality"]
    /\ pre' = [ts1 |-> ts, ts2 |-> ts2]
    /\ LET r == calculate_quality(ts, ts2)
       IN  /\ ts' = r.ts_obs
           /\ ts2' = r.ts_sim
           /\ err' = r.err
           /\ ret' = [NoResult EXCEPT !.dates = r.dates, !.obs = r.obs,
                                      !.sim = r.sim, !.err = r.err,
                                      !.metrics = r.metrics]

NextQuality ==
    \/ Synchronize
    \/ SynchronizeAgain
    \/ CalculateQuality

SpecQuality == InitQuality /\ [][NextQuality]_vars

-----------------------------------------------------------------------------
(* Files: Timeseries.write_to_file.                                        *)
(*                                                                         *)
(* In a series that is written to a file a value is a float given as a     *)
(* whole number of thousandths (5.0 is 5000); nan and nan_other stay the   *)
(* NaN floats.  A file is the sequence of its lines (of its records for    *)
(* bin); a line is a record of its kind, the fields of its date string,    *)
(* the text of its value and its other text.                               *)

Line(kind, date, tok, text) ==
    [kind |-> kind, date |-> date, tok |-> tok, text |-> text]

\* the text of a float that is not NaN, and the text "nan"
NumTok(milli) == [kind |-> "num", milli |-> milli]

NanTok == [kind |-> "nan", milli |-> 0]

NoTok == [kind |-> "", milli |-> 0]

\* str(value) of a float: repr gives the shortest text that float() reads
\* back as the same float, and "nan" for every NaN
str(value) == IF isnan(value) THEN NanTok ELSE NumTok(value)

\* float(text): "nan" gives a new NaN float, not the object np.nan
float(tok) == IF tok.kind = "nan" THEN nan_other ELSE tok.milli

\* the text "-777.0" of the ZRX header RINVAL-777.0, in thousandths
RINVAL == -777000

\* the value written for NaN in a bin file, -9999.999, in thousandths
BIN_NAN == -9999999

\* text.startswith("-777.0") for the text of a value: -777.0, -777.05, ...
startswith_rinval(tok, rinval) ==
    IF rinval = NumTok(RINVAL)
    THEN tok.kind = "num" /\ tok.milli <= RINVAL /\ tok.milli > RINVAL - 100
    ELSE tok = rinval

\* text.startswith("-777") for the text of a value: -777.x, -7770.x to
\* -7779.x, -77700.x to -77799.x
startswith_777(tok) ==
    /\ tok.kind = "num"
    /\ \/ (tok.milli <= -777000 /\ tok.milli > -778000)
       \/ (tok.milli <= -7770000 /\ tok.milli > -7780000)
       \/ (tok.milli <= -77700000 /\ tok.milli > -77800000)

\* a number of thousandths rounded to a multiple of unit
round_to(milli, unit) ==
    IF milli >= 0 THEN ((milli + unit \div 2) \div unit) * unit
    ELSE -(((-milli + unit \div 2) \div unit) * unit)

\* " %9.6g" % value: six significant digits (values below 10^6)
format_6g(value) ==
    IF isnan(value) THEN NanTok
    ELSE LET a == IF value >= 0 THEN value ELSE -value
         IN  IF a < 1000000 THEN NumTok(value)
             ELSE IF a < 10000000 THEN NumTok(round_to(value, 10))
             ELSE IF a < 100000000 THEN NumTok(round_to(value, 100))
             ELSE NumTok(round_to(value, 1000))

\* date.strftime("%Y%m%d%H%M%S") and "%Y-%m-%d %H:%M:%S": the fields
strftime(date) == <<Year(date), Month(date), Day(date), Hour(date), 0, 0>>

\* date.strftime("%Y%m%d%H%M")[2:]: the year without its century
strftime_uvf(date) == <<Year(date) % 100, Month(date), Day(date), Hour(date), 0>>

\* datetime.datetime.strptime(date_str, ...) of the fields of a whole hour
strptime(fields) == DT(fields[1], fields[2], fields[3], fields[4])

\* days from 1970-01-01 to the day y-m-d of the proleptic Gregorian calendar
days_from_civil(y, m, d) ==
    LET yy  == IF m <= 2 THEN y - 1 ELSE y
        era == yy \div 400
        yoe == yy - era * 400
        mp  == IF m > 2 THEN m - 3 ELSE m + 9
        doy == (153 * mp + 2) \div 5 + d - 1
        doe == yoe * 365 + yoe \div 4 - yoe \div 100 + doy
    IN  era * 146097 + doe - 719468

\* the timestamp at hour h of the day that many days from 1970-01-01
civil_from_days(days, h) ==
    LET z   == days + 719468
        era == z \div 146097
        doe == z - era * 146097
        yoe == (doe - doe \div 1460 + doe \div 36524 - doe \div 146096) \div 365
        doy == doe - (365 * yoe + yoe \div 4 - yoe \div 100)
        mp  == (5 * doy + 2) \div 153
        d   == doy - (153 * mp + 2) \div 5 + 1
        m   == IF mp < 10 THEN mp + 3 ELSE mp - 9
        y   == yoe + era * 400 + (IF m <= 2 THEN 1 ELSE 0)
    IN  DT(y, m, d, h)

\* Timeseries.date_to_double(timestamp): hours since 1601-01-01, exact for a
\* whole hour
date_to_double(timestamp) ==
    (days_from_civil(Year(timestamp), Month(timestamp), Day(timestamp))
        - days_from_civil(1601, 1, 1)) * 24 + Hour(timestamp)

\* Timeseries.double_to_date(rDate) of a whole number of hours
double_to_date(rDate) ==
    civil_from_days(days_from_civil(1601, 1, 1) + rDate \div 24, rDate % 24)

\* struct.pack("f", value): the single nearest to the double, given as a
\* whole number of 1/1024.  Singles from 8192 to 16384 in magnitude are the
\* multiples of 1/1024; smaller values are taken from those that a single
\* holds exactly with ten binary places.
to_single(milli) ==
    LET q == milli \div 1000
        r == milli % 1000
    IN  q * 1024 + (r * 1024 + 500) \div 1000

\* the double of a single, to the nearest thousandth
from_single(k) == (k \div 1024) * 1000 + ((k % 1024) * 1000 + 512) \div 1024

\* abs(value - -9999.999) < 0.0001 for a single k / 1024: the difference in
\* units of 1 / 1024000 is (k + 10239999) * 1000 - 24, the bound is 102.4
near_bin_nan(k) ==
    /\ k + 10239999 \in -1 .. 1
    /\ LET diff == (k + 10239999) * 1000 - 24
       IN  (IF diff >= 0 THEN diff ELSE -diff) * 10 < 1024

\* the data lines of a text format for the nodes in date order
data_lines(self, kind) ==
    [i \in 1 .. Len(dates(self)) |->
        Line(kind, strftime(dates(self)[i]), str(values(self)[i]), "")]

\* the data lines of a ZRX file: NaN is written as -777.0 with a remark
zrx_lines(self) ==
    [i \in 1 .. Len(dates(self)) |->
        IF isnan(values(self)[i])
        THEN Line("zrx_data", strftime(dates(self)[i]), NumTok(RINVAL), "nan")
        ELSE Line("zrx_data", strftime(dates(self)[i]), str(values(self)[i]), "")]

\* the data lines of a UVF file
uvf_lines(self) ==
    [i \in 1 .. Len(dates(self)) |->
        Line("uvf_data", strftime_uvf(dates(self)[i]),
             format_6g(values(self)[i]), "")]

\* the records of a bin file
bin_records(self) ==
    [i \in 1 .. Len(dates(self)) |->
        Line("record", <<date_to_double(dates(self)[i])>>,
             NumTok(to_single(IF isnan(values(self)[i]) THEN BIN_NAN
                              ELSE values(self)[i])), "")]

\* Timeseries.write_to_file(filename, options) for the suffix of filename:
\* [file |-> the lines written, err |-> the exception raised]
write_to_file(self, suffix, options) ==
    IF suffix = ".txt"
    THEN [file |-> <<Line("#", <<>>, NoTok, self.title)>>
                    \o data_lines(self, "txt_data"),
          err |-> ""]
    ELSE IF suffix = ".csv"
    THEN [file |-> <<Line("#", <<>>, NoTok, self.title),
                     Line("csv_head", <<>>, NoTok, "date,value")>>
                    \o data_lines(self, "csv_data"),
          err |-> ""]
    ELSE IF suffix = ".uvf"
    THEN IF start(self).err # ""
         THEN [file |-> <<Line("attr", <<>>, NoTok, self.unit),
                          Line("attr", <<>>, NoTok, self.title),
                          Line("*Z", <<>>, NoTok, "")>>,
               err |-> start(self).err]
         ELSE [file |-> <<Line("attr", <<>>, NoTok, self.unit),
                          Line("attr", <<>>, NoTok, self.title),
                          Line("*Z", <<>>, NoTok, ""),
                          Line("uvf_title", <<>>, NoTok,
                               [title |-> self.title, unit |-> self.unit,
                                century_start |-> (Year(start(self).ret) \div 100) * 100,
                                century_end |-> (Year(end(self).ret) \div 100) * 100]),
                          Line("uvf_location", <<>>, NoTok,
                               [location |-> self.location, lat |-> self.lat,
                                lon |-> self.lon, z |-> self.z]),
                          Line("uvf_range",
                               strftime_uvf(start(self).ret) \o strftime_uvf(end(self).ret),
                               NoTok, "")>>
                         \o uvf_lines(self),
               err |-> ""]
    ELSE IF suffix = ".zrx"
    THEN [file |-> <<Line("##", <<>>, NoTok, self.title),
                     Line("zrx_meta", <<>>, NoTok,
                          <<[key |-> "ZRXPVERSION", val |-> "3014.03"],
                            [key |-> "ZRXPCREATOR", val |-> "SYDRO pyTimeseries"]>>),
                     Line("zrx_meta", <<>>, NoTok,
                          <<[key |-> "SANR", val |-> self.station_id],
                            [key |-> "SNAME", val |-> self.station_name]>>)>>
                    \o (IF options # ""
                        THEN <<Line("zrx_meta", <<>>, NoTok,
                                    <<[key |-> "REXCHANGE", val |-> options]>>)>>
                        ELSE <<>>)
                    \o <<Line("zrx_meta", <<>>, NoTok,
                              <<[key |-> "CNAME", val |-> self.param],
                                [key |-> "CUNIT", val |-> self.unit],
                                [key |-> "RINVAL", val |-> NumTok(RINVAL)]>>),
                         Line("zrx_meta", <<>>, NoTok,
                              <<[key |-> "LAYOUT", val |-> "(timestamp,value,remark)"]>>)>>
                    \o zrx_lines(self),
          err |-> ""]
    ELSE IF suffix = ".bin"
    THEN [file |-> <<Line("bin_header", <<3319, 0, 0>>, NoTok, "")>>
                    \o bin_records(self),
          err |-> ""]
    ELSE [file |-> <<>>, err |-> "Exception"]

-----------------------------------------------------------------------------
(* Files: Timeseries.read_file and the readers of the formats.             *)
(* A reader returns [ts |-> the series read, err |-> the exception].       *)

\* a naive datetime.datetime handed to ts[date] = value
datetime(t) == [kind |-> "datetime", val |-> t, tzinfo |-> "None"]

RECURSIVE read_txt_loop(_, _, _)
\* the loop of read_txt over the lines from position i on: a line that
\* cannot be parsed or stored ends the process (sys.exit in the except)
read_txt_loop(file, i, ts_) ==
    IF i > Len(file) THEN [ts |-> ts_, err |-> ""]
    ELSE IF file[i].kind \in {"#", "##", "zrx_meta", "blank"}
    THEN read_txt_loop(file, i + 1, ts_)
    ELSE IF file[i].kind # "txt_data"
    THEN [ts |-> ts_, err |-> "SystemExit"]
    ELSE LET r == setitem_ts(ts_, datetime(strptime(file[i].date)),
                             float(file[i].tok))
         IN  IF r.err # "" THEN [ts |-> ts_, err |-> "SystemExit"]
             ELSE read_txt_loop(file, i + 1, r.ts)

\* Timeseries.read_txt(filename)
read_txt(file) == read_txt_loop(file, 1, Timeseries(""))

RECURSIVE parse_metadata(_, _, _)
\* the blocks of a metadata line stored under the keys metadata knows
parse_metadata(metadata, data, j) ==
    IF j > Len(data) THEN metadata
    ELSE parse_metadata(
            IF data[j].key \in DOMAIN metadata
            THEN [metadata EXCEPT ![data[j].key] = data[j].val] ELSE metadata,
            data, j + 1)

RECURSIVE read_zrx_loop(_, _, _, _)
\* the loop of read_zrx over the lines from position i on
read_zrx_loop(file, i, metadata, ts_) ==
    IF i > Len(file)
    THEN [ts |-> [ts_ EXCEPT !.title = metadata.SNAME,
                             !.station_id = metadata.SANR,
                             !.station_name = metadata.SNAME,
                             !.param = metadata.CNAME,
                             !.unit = metadata.CUNIT],
          err |-> ""]
    ELSE IF file[i].kind = "##"
    THEN read_zrx_loop(file, i + 1, metadata, ts_)
    ELSE IF file[i].kind \in {"#", "zrx_meta"}
    THEN IF file[i].kind = "#" THEN [ts |-> ts_, err |-> "NameError"]
         ELSE read_zrx_loop(file, i + 1,
                            parse_metadata(metadata, file[i].text, 1), ts_)
    ELSE IF file[i].kind \notin {"zrx_data", "txt_data"}
    THEN [ts |-> ts_, err |-> "ValueError"]
    ELSE LET r == setitem_ts(ts_, datetime(strptime(file[i].date)),
                             IF startswith_rinval(file[i].tok, metadata.RINVAL)
                             THEN nan ELSE float(file[i].tok))
         IN  IF r.err # "" THEN [ts |-> ts_, err |-> r.err]
             ELSE read_zrx_loop(file, i + 1, metadata, r.ts)

\* Timeseries.read_zrx(filename)
read_zrx(file) ==
    read_zrx_loop(file, 1,
                  [SANR |-> 0, SNAME |-> "", CNAME |-> "", CUNIT |-> "",
                   RINVAL |-> NumTok(RINVAL)],
                  Timeseries(""))

\* read_bin without the test for the value written for NaN
read_bin_value_as_stored(k) == from_single(k)

\* the value read_bin stores for the single k / 1024 of a record
read_bin_value(k) == IF near_bin_nan(k) THEN nan ELSE from_single(k)

RECURSIVE read_bin_loop(_, _, _)
\* the loop of read_bin over the records from position i on
read_bin_loop(file, i, ts_) ==
    IF i > Len(file) THEN [ts |-> ts_, err |-> ""]
    ELSE LET r == setitem_ts(ts_, datetime(double_to_date(file[i].date[1])),
                             read_bin_value(file[i].tok.milli))
         IN  IF r.err # "" THEN [ts |-> ts_, err |-> r.err]
             ELSE read_bin_loop(file, i + 1, r.ts)

\* Timeseries.read_bin(filename): the 12 bytes of the header are skipped
read_bin(file) == read_bin_loop(file, 2, Timeseries(""))

\* the century of read_uvf left as it is at every data line
read_uvf_century_kept(century, year, yy) == century

\* the century of read_uvf incremented when the year does not grow
read_uvf_century_on_equal(century, year, yy) ==
    IF yy <= year THEN century + 100 ELSE century

\* the century of a data line with two-digit year yy, after the century and
\* the two-digit year of the data line before it
read_uvf_century(century, year, yy) ==
    IF yy < year THEN century + 100 ELSE century

\* the state of read_uvf before the first line
read_uvf_init ==
    [i_header |-> 0, is_attributes |-> TRUE, is_header |-> FALSE,
     is_data |-> FALSE, century |-> 1900, year |-> 0, ts |-> Timeseries(""),
     err |-> ""]

\* the header part of the body of the loop of read_uvf for one line
read_uvf_header(st, line) ==
    LET is_header == st.is_header \/ line.kind = "*Z"
        st1 == [st EXCEPT !.is_attributes = @ /\ line.kind # "*Z",
                          !.is_header = is_header,
                          !.i_header = IF is_header THEN @ + 1 ELSE @]
    IN  IF ~is_header \/ st1.i_header \in {1, 4} THEN st1
        ELSE IF st1.i_header = 2
        THEN IF line.kind # "uvf_title" THEN [st1 EXCEPT !.err = "ValueError"]
             ELSE [st1 EXCEPT !.ts.title = line.text.title,
                              !.ts.unit = line.text.unit,
                              !.century = line.text.century_start]
        ELSE IF st1.i_header = 3
        THEN IF line.kind # "uvf_location"
             THEN [st1 EXCEPT !.ts.location = line.kind]
             ELSE [st1 EXCEPT !.ts.location = line.text.location,
                              !.ts.lat = line.text.lat,
                              !.ts.lon = line.text.lon,
                              !.ts.z = line.text.z]
        ELSE [st1 EXCEPT !.is_header = FALSE, !.is_data = TRUE]

\* the data part of the body of the loop of read_uvf for one line
read_uvf_data(st, line) ==
    IF st.err # "" \/ ~st.is_data \/ line.kind = "blank" THEN st
    ELSE IF line.kind # "uvf_data" THEN [st EXCEPT !.err = "ValueError"]
    ELSE LET value   == IF startswith_777(line.tok) THEN nan
                        ELSE float(line.tok)
             century == read_uvf_century(st.century, st.year, line.date[1])
             date    == strptime(<<(century \div 100) * 100 + line.date[1],
                                   line.date[2], line.date[3], line.date[4]>>)
             r       == setitem_ts(st.ts, datetime(date), value)
         IN  [st EXCEPT !.century = century, !.year = line.date[1],
                        !.ts = r.ts, !.err = r.err]

RECURSIVE read_uvf_loop_first_skipped(_, _, _)
\* the loop of read_uvf with the data part run only for the lines after the
\* line that switched to the data
read_uvf_loop_first_skipped(file, i, st) ==
    IF i > Len(file) \/ st.err # "" THEN st
    ELSE read_uvf_loop_first_skipped(
            file, i + 1,
            IF st.is_data
            THEN read_uvf_data(read_uvf_header(st, file[i]), file[i])
            ELSE read_uvf_header(st, file[i]))

RECURSIVE read_uvf_loop(_, _, _)
\* the loop of read_uvf over the lines from position i on
read_uvf_loop(file, i, st) ==
    IF i > Len(file) \/ st.err # "" THEN st
    ELSE read_uvf_loop(file, i + 1,
                       read_uvf_data(read_uvf_header(st, file[i]), file[i]))

\* Timeseries.read_uvf(filename)
read_uvf(file) ==
    [ts |-> read_uvf_loop(file, 1, read_uvf_init).ts,
     err |-> read_uvf_loop(file, 1, read_uvf_init).err]

\* the reader read_file calls for a suffix, "" for none
reader_of(suffix) ==
    IF suffix = ".txt" THEN "read_txt"
    ELSE IF suffix = ".uvf" THEN "read_uvf"
    ELSE IF suffix = ".zrx" THEN "read_zrx"
    ELSE IF suffix = ".bin" THEN "read_bin"
    ELSE ""

\* the file handles an operation opened that are open when it has returned
\* or raised err_: read_txt and read_uvf open f and call f.close() after the
\* loop over the lines, every other operation opens its file in a with
\* statement
open_handles(operation, err_) ==
    IF operation \in {"read_txt", "read_uvf"} /\ err_ # "" THEN {"f"} ELSE {}

\* Timeseries.read_file(filename, format) for format None: the suffix of
\* the file name chooses the reader
read_file(file, suffix) ==
    IF suffix = ".txt" THEN read_txt(file)
    ELSE IF suffix = ".uvf" THEN read_uvf(file)
    ELSE IF suffix = ".zrx" THEN read_zrx(file)
    ELSE IF suffix = ".bin" THEN read_bin(file)
    ELSE [ts |-> Timeseries(""), err |-> "Exception"]

-----------------------------------------------------------------------------
(* One write_to_file of a drawn series and one read_file of the file on    *)
(* disk, which is the file written or a drawn UVF file.                    *)

\* the most data lines of a drawn UVF file
MaxLines == 3

\* the timestamps of the series written: the last hour of a century's year
\* 99 and two days of year 20
CodecTimes == {DT(1999, 12, 31, 23), DT(2020, 1, 1, 0), DT(2020, 1, 2, 0)}

\* the values of the series written, in thousandths: 5.0, 0.5, the ZRX
\* value for NaN -777.0, -777.05, the bin value for NaN -9999.999, and the
\* NaN floats
CodecValues == {5000, 500, RINVAL, -777050, BIN_NAN, nan, nan_other}

CodecNodes == UNION {[S -> CodecValues] : S \in SUBSET CodecTimes}

\* the metadata of the series written
CodecMetas ==
    {Timeseries(""),
     [Timeseries("Q") EXCEPT !.station_id = "7", !.station_name = "S",
        !.param = "Q", !.unit = "m3/s", !.location = "L", !.lat = 51,
        !.lon = 7, !.z = 3]}

\* the suffixes of the file names handed to write_to_file
Suffixes == {".txt", ".csv", ".uvf", ".zrx", ".bin", ".dat"}

\* the data lines of the drawn UVF files: the first of January and of June,
\* hour 0, of the two-digit years 99, 00 and 01, and an empty line
UvfDataLines ==
    {Line("uvf_data", <<yy, m, 1, 0, 0>>, NumTok(5000), "") :
        yy \in {99, 0, 1}, m \in {1, 6}}
    \cup {Line("blank", <<>>, NoTok, "")}

\* the header of a drawn UVF file with the start century on its title line
UvfHeader(century) ==
    <<Line("attr", <<>>, NoTok, "m3/s"),
      Line("*Z", <<>>, NoTok, ""),
      Line("uvf_title", <<>>, NoTok,
           [title |-> "Q", unit |-> "m3/s", century_start |-> century,
            century_end |-> century + 100]),
      Line("uvf_location", <<>>, NoTok,
           [location |-> "L", lat |-> 51, lon |-> 7, z |-> 3]),
      Line("uvf_range", <<>>, NoTok, "")>>

\* a line like a data line, of year 98, where no data line belongs
StrayLine == Line("uvf_data", <<98, 1, 1, 0, 0>>, NumTok(5000), "")

\* the lines up to the data of a drawn UVF file: the header above, the same
\* with a line like a data line among the attributes, and one whose third
\* and fourth header lines are lines like data lines
UvfHeaders(century) ==
    {UvfHeader(century),
     <<StrayLine>> \o UvfHeader(century),
     SubSeq(UvfHeader(century), 1, 3) \o <<StrayLine, StrayLine>>}

UvfFiles ==
    {header \o data :
        header \in UNION {UvfHeaders(century) : century \in {1800, 1900}},
        data \in UNION {[1 .. n -> UvfDataLines] : n \in 0 .. MaxLines}}

NoFile == [file |-> <<>>, suffix |-> ""]

InitCodec ==
    /\ \/ /\ ts \in {[m EXCEPT !.nodes = n] : m \in CodecMetas, n \in CodecNodes}
          /\ ret = NoFile
          /\ pc = "ready"
       \/ /\ ts = Timeseries("")
          /\ ret \in {[file |-> f, suffix |-> ".uvf"] : f \in UvfFiles}
          /\ pc = "written"
    /\ ts2 = Timeseries("")
    /\ op = NoOp
    /\ pre = Timeseries("")
    /\ err = ""

\* ts.write_to_file(filename, options): a file of a known suffix is on disk
\* afterwards, also when the writing raised
WriteToFile ==
    /\ pc = "ready"
    /\ \E suffix \in Suffixes, options \in {"", "X"} :
          /\ ret' = [file |-> write_to_file(ts, suffix, options).file,
                     suffix |-> suffix]
          /\ err' = write_to_file(ts, suffix, options).err
          /\ pc' = IF suffix = ".dat" THEN "failed" ELSE "written"
    /\ op' = [NoOp EXCEPT !.name = "write_to_file",
                          !.open_handles = open_handles("write_to_file", err')]
    /\ pre' = ts
    /\ UNCHANGED <<ts, ts2>>

\* ts2 = Timeseries.read_file(filename) of the file on disk
ReadFile ==
    /\ pc = "written"
    /\ ts2' = read_file(ret.file, ret.suffix).ts
    /\ err' = read_file(ret.file, ret.suffix).err
    /\ pc' = "read"
    /\ op' = [NoOp EXCEPT !.name = "read_file",
                          !.open_handles = open_handles(reader_of(ret.suffix), err')]
    /\ UNCHANGED <<ts, pre, ret>>

NextCodec == WriteToFile \/ ReadFile

SpecCodec == InitCodec /\ [][NextCodec]_vars

-----------------------------------------------------------------------------
(* Properties of the container operations, checked under Spec *)

\* the nodes of a mapping whose timestamp lies in a set, with their values
Restrict(nodes, S) == [k \in (DOMAIN nodes) \cap S |-> nodes[k]]

\* the timestamp a datetime or date argument denotes once it is naive
Naive(timestamp) ==
    IF timestamp.kind = "date" THEN DT(timestamp.val \div 10000,
                                       (timestamp.val \div 100) % 100,
                                       timestamp.val % 100, 0)
    ELSE timestamp.val

\* C1: add_node(t, v) and ts[t] = v at a timestamp already present raise an
\* error and leave nodes unchanged; ts.nodes[t] = v at a timestamp already
\* present succeeds and changes the value of that timestamp only.
C1_InsertExistingFails ==
    /\ (/\ op.name \in {"add_node", "__setitem__"}
        /\ op.timestamp.kind \in {"datetime", "date"}
        /\ Naive(op.timestamp) \in DOMAIN pre.nodes)
       => (err = "KeyError" /\ ts.nodes = pre.nodes)
    /\ (op.name = "nodes_assign" /\ op.timestamp.val \in DOMAIN pre.nodes)
       => /\ err = ""
          /\ DOMAIN ts.nodes = DOMAIN pre.nodes
          /\ ts.nodes[op.timestamp.val] = op.value
          /\ \A k \in DOMAIN pre.nodes :
                k # op.timestamp.val => ts.nodes[k] = pre.nodes[k]

\* C1 happens: an insertion at a present timestamp whose stored value differs
\* from the value offered
C1_Witness ==
    /\ op.name = "add_node"
    /\ op.timestamp.kind = "datetime"
    /\ op.timestamp.val \in DOMAIN pre.nodes
    /\ pre.nodes[op.timestamp.val] # op.value
    /\ err = "KeyError"

\* C2: cut(start, end) and cut_bisect(start, end) applied to equal series
\* leave the same nodes mapping, for every pair of bounds.
C2_CutBisectAgrees ==
    /\ op.name = "cut" => ts.nodes = cut_bisect(pre, op.start, op.end).nodes
    /\ op.name = "cut_bisect" => ts.nodes = cut(pre, op.start, op.end).nodes

\* C3: after cut(start, end) the series holds exactly the former nodes with
\* start <= t <= end, each with its former value.
C3_CutKeepsInclusiveRange ==
    op.name = "cut" =>
        ts.nodes = Restrict(pre.nodes, {t \in DOMAIN pre.nodes :
                                          op.start <= t /\ t <= op.end})

\* C3 happens: a cut whose bounds are both timestamps of the series, with a
\* node dropped before start and a node dropped after end
C3_Witness ==
    /\ op.name = "cut"
    /\ op.start < op.end
    /\ op.start \in DOMAIN ts.nodes
    /\ op.end \in DOMAIN ts.nodes
    /\ \E t \in DOMAIN pre.nodes : t < op.start
    /\ \E t \in DOMAIN pre.nodes : t > op.end

\* C4: cut is idempotent: a series that cut(start, end) has just cut is left
\* unchanged by cut with the same bounds.
C4_CutIdempotent ==
    op.name = "cut" => cut(ts, op.start, op.end).nodes = ts.nodes

\* C4 happens: a cut that removed nodes and kept nodes
C4_Witness ==
    /\ op.name = "cut"
    /\ ts.nodes # pre.nodes
    /\ DOMAIN ts.nodes # {}

\* C5: start is the minimum and end the maximum timestamp currently in nodes,
\* after any sequence of the mutating operations; on a series without nodes
\* both raise an error.
C5_StartEndAreExtremes ==
    /\ op.name = "start" =>
         IF DOMAIN pre.nodes = {} THEN err = "IndexError"
         ELSE /\ err = ""
              /\ ret \in DOMAIN pre.nodes
              /\ \A k \in DOMAIN pre.nodes : ret <= k
    /\ op.name = "end" =>
         IF DOMAIN pre.nodes = {} THEN err = "IndexError"
         ELSE /\ err = ""
              /\ ret \in DOMAIN pre.nodes
              /\ \A k \in DOMAIN pre.nodes : k <= ret

\* C5 happens: start is asked of a series that no longer holds the earliest
\* timestamp ever inserted and holds several nodes
C5_Witness ==
    /\ op.name = "start"
    /\ err = ""
    /\ Cardinality(DOMAIN pre.nodes) >= 2
    /\ \E t \in Times : t < ret

\* the months passed after k steps of one month from t, as <<year, month>>
MonthAfter(t, k) ==
    <<Year(t) + ((Month(t) - 1 + k) \div 12), ((Month(t) - 1 + k) % 12) + 1>>

\* the k-th timestamp of the month grid from t: the day of month is clamped
\* by every month passed on the way
MonthGridPoint(t, k) ==
    LET lens == {monthrange(MonthAfter(t, j)[1], MonthAfter(t, j)[2]) : j \in 1 .. k}
        day  == CHOOSE d \in lens \cup {Day(t)} : \A e \in lens \cup {Day(t)} : d <= e
    IN  DT(MonthAfter(t, k)[1], MonthAfter(t, k)[2], day, Hour(t))

\* the step grid from the first to the last timestamp of a non-empty mapping
StepGrid(nodes, dt) ==
    LET lo == CHOOSE t \in DOMAIN nodes : \A k \in DOMAIN nodes : t <= k
        hi == CHOOSE t \in DOMAIN nodes : \A k \in DOMAIN nodes : k <= t
    IN  IF dt = "M"
        THEN {MonthGridPoint(lo, k) : k \in {j \in 0 .. 24 : MonthGridPoint(lo, j) <= hi}}
        ELSE {t \in {DT(y, m, d, Hour(lo)) :
                        y \in Year(lo) .. Year(hi), m \in 1 .. 12, d \in 1 .. 31} :
                d_ok(t) /\ lo <= t /\ t <= hi}

\* C7: fill_gaps(step) on a non-empty series inserts a missing-value node at
\* every timestamp of the step grid from start to end that is not present,
\* and leaves every node that was present as it was.
C7_FillGapsAddsGrid ==
    (op.name = "fill_gaps" /\ op.dt \in {"d", "M"} /\ DOMAIN pre.nodes # {}) =>
        /\ err = ""
        /\ DOMAIN ts.nodes = (DOMAIN pre.nodes) \cup StepGrid(pre.nodes, op.dt)
        /\ \A k \in DOMAIN pre.nodes : ts.nodes[k] = pre.nodes[k]
        /\ \A k \in (DOMAIN ts.nodes) \ (DOMAIN pre.nodes) : ts.nodes[k] = nan

\* C7 happens: step month on nodes at months 1 and 4 with values; months 2
\* and 3 are added as missing
C7_Witness ==
    /\ op.name = "fill_gaps"
    /\ op.dt = "M"
    /\ DOMAIN pre.nodes = {DT(2020, 1, 1, 0), DT(2020, 4, 1, 0)}
    /\ \A k \in DOMAIN pre.nodes : ~isnan(pre.nodes[k])
    /\ DOMAIN ts.nodes = (DOMAIN pre.nodes) \cup {DT(2020, 2, 1, 0), DT(2020, 3, 1, 0)}
    /\ ts.nodes[DT(2020, 2, 1, 0)] = nan
    /\ ts.nodes[DT(2020, 3, 1, 0)] = nan

\* C8: delete_nan_nodes() removes the nodes whose value is missing and no
\* other; afterwards len(series) = count_value_nodes(), which is what
\* count_value_nodes() was before the call.
C8_DeleteNanNodes ==
    op.name = "delete_nan_nodes" =>
        /\ ts.nodes = Restrict(pre.nodes, {t \in DOMAIN pre.nodes :
                                             pre.nodes[t] \notin {nan, nan_other}})
        /\ Cardinality(DOMAIN ts.nodes) = count_value_nodes(ts)
        /\ count_value_nodes(ts) = count_value_nodes(pre)

\* C8 happens: a series with two missing nodes and a value node between them
C8_Witness ==
    /\ op.name = "delete_nan_nodes"
    /\ \E a, b, c \in DOMAIN pre.nodes :
          /\ a < b /\ b < c
          /\ isnan(pre.nodes[a]) /\ ~isnan(pre.nodes[b]) /\ isnan(pre.nodes[c])

-----------------------------------------------------------------------------
(* Properties of copy, copy_metadata and aggregate, checked under SpecDerive *)

\* C6: copy() returns a series whose ten metadata fields and whose nodes
\* equal the original's; copy_metadata(other) makes the ten metadata fields
\* equal to other's and leaves nodes unchanged.
C6_CopyDuplicatesAll ==
    /\ op.name = "copy" =>
         /\ \A f \in MetaFields : ts2[f] = ts[f]
         /\ ts2.nodes = ts.nodes
    /\ op.name = "copy_metadata" =>
         /\ \A f \in MetaFields : ts2[f] = ts[f]
         /\ ts2.nodes = pre.nodes

\* the source nodes at or after start
FromStart(nodes, start_) == {k \in DOMAIN nodes : k >= start_}

RECURSIVE SetSum(_, _)
\* the sum of the values of a mapping over a set of its timestamps
SetSum(nodes, S) ==
    IF S = {} THEN 0
    ELSE LET k == CHOOSE x \in S : TRUE IN nodes[k] + SetSum(nodes, S \ {k})

\* the reduction of the nodes of S: missing when a value is missing and
\* missing values are not ignored, or when all are missing; else the sum or
\* the mean of the values that are not missing
Reduction(nodes, S, interpretation, ignore_nan) ==
    LET good == {k \in S : nodes[k] \notin {nan, nan_other}}
    IN  IF (~ignore_nan /\ good # S) \/ good = {} THEN nan
        ELSE IF interpretation = "Sum" THEN SetSum(nodes, good)
        ELSE SetSum(nodes, good) \div Cardinality(good)

\* C9: when all source nodes at or after start lie in [start, start + step),
\* aggregate returns a series with exactly one node, keyed start, whose value
\* is the reduction of those nodes (10 for the daily series 1, 2, 3, 4 summed
\* by month).
C9_SingleBucket ==
    (/\ op.name = "aggregate"
     /\ err = ""
     /\ FromStart(pre.nodes, op.start) # {}
     /\ \A k \in FromStart(pre.nodes, op.start) : k < t_next_of(op.start, op.dt))
    => /\ DOMAIN ts2.nodes = {op.start}
       /\ LET v == Reduction(pre.nodes, FromStart(pre.nodes, op.start),
                             op.interpretation, op.ignore_nan)
          IN  IF v = nan THEN isnan(ts2.nodes[op.start])
              ELSE ts2.nodes[op.start] = v

\* C10: the series aggregate returns has interpretation BlockRight, the
\* source's other metadata, and the source's title followed by the step label.
C10_AggregateMetadata ==
    (op.name = "aggregate" /\ err = "") =>
        /\ ts2.interpretation = Interpretation.BlockRight
        /\ \A f \in MetaFields \ {"title", "interpretation"} : ts2[f] = pre[f]
        /\ ts2.title = pre.title \o " (" \o op.dt \o ")"

\* the closed timesteps of the aggregate call recorded in op on the series pre
Buckets ==
    aggregate_buckets(dates(pre), 1, op.dt, op.start,
                      [t |-> op.start, dates |-> {}], <<>>)

\* C11: in aggregate with ignore_nan false, every closed bucket that holds at
\* least one missing value has the missing value as its aggregate, for Sum
\* and for LinearInterpolation.
C11_NanPropagates ==
    (op.name = "aggregate" /\ err = "" /\ ~op.ignore_nan) =>
        /\ DOMAIN ts2.nodes = DOMAIN Buckets
        /\ \A k \in DOMAIN Buckets :
              (\E d \in Buckets[k] : pre.nodes[d] \in {nan, nan_other})
                  => ts2.nodes[k] \in {nan, nan_other}

\* C12: in aggregate with ignore_nan true, the aggregate of a closed bucket
\* is the sum (Sum) or the arithmetic mean (LinearInterpolation) of its
\* values that are not missing, and missing when all its values are missing.
C12_IgnoreNanReduces ==
    (op.name = "aggregate" /\ err = "" /\ op.ignore_nan) =>
        /\ DOMAIN ts2.nodes = DOMAIN Buckets
        /\ \A k \in DOMAIN Buckets :
              LET good == {d \in Buckets[k] : pre.nodes[d] \notin {nan, nan_other}}
              IN  IF good = {} THEN ts2.nodes[k] \in {nan, nan_other}
                  ELSE IF op.interpretation = "Sum"
                       THEN ts2.nodes[k] = SetSum(pre.nodes, good)
                       ELSE ts2.nodes[k] * Cardinality(good) = SetSum(pre.nodes, good)

\* C12 happens: a closed bucket of three nodes, one of them missing, reduced
\* by the mean with ignore_nan true
C12_Witness ==
    /\ op.name = "aggregate"
    /\ err = ""
    /\ op.ignore_nan
    /\ op.interpretation = "LinearInterpolation"
    /\ \E k \in DOMAIN Buckets :
          /\ Cardinality(Buckets[k]) = 3
          /\ \E d \in Buckets[k] : isnan(pre.nodes[d])
          /\ ts2.nodes[k] = Float(2)

-----------------------------------------------------------------------------
(* Properties of synchronize and calculate_quality, checked under          *)
(* SpecQuality                                                             *)

\* C13: synchronize(a, b) returns two series whose timestamp sets both equal
\* the intersection of the timestamp sets of a and b, each with the values
\* of its own input there, and leaves the nodes of a and b unchanged.
C13_SynchronizeIntersects ==
    op.name = "synchronize" =>
        LET common == (DOMAIN pre.ts1.nodes) \cap (DOMAIN pre.ts2.nodes)
        IN  /\ ret.ts1_sync.nodes = Restrict(pre.ts1.nodes, common)
            /\ ret.ts2_sync.nodes = Restrict(pre.ts2.nodes, common)
            /\ ts.nodes = pre.ts1.nodes
            /\ ts2.nodes = pre.ts2.nodes

\* C13 happens: each input holds a timestamp the other lacks, and the two
\* hold different values at a common timestamp
C13_Witness ==
    /\ op.name = "synchronize"
    /\ (DOMAIN pre.ts1.nodes) \ (DOMAIN pre.ts2.nodes) # {}
    /\ (DOMAIN pre.ts2.nodes) \ (DOMAIN pre.ts1.nodes) # {}
    /\ \E k \in (DOMAIN ret.ts1_sync.nodes) \cap (DOMAIN ret.ts2_sync.nodes) :
          ret.ts1_sync.nodes[k] # ret.ts2_sync.nodes[k]

\* C14: synchronize applied to the two outputs of synchronize(a, b) returns
\* series with the nodes of those outputs, and the two outputs have one
\* timestamp set, the intersection of the timestamp sets of a and b.
C14_SynchronizeIdempotent ==
    op.name = "synchronize again" =>
        /\ ret.ts1_sync.nodes = pre.ts1.nodes
        /\ ret.ts2_sync.nodes = pre.ts2.nodes
        /\ DOMAIN pre.ts1.nodes = DOMAIN pre.ts2.nodes
        /\ DOMAIN pre.ts1.nodes = (DOMAIN ts.nodes) \cap (DOMAIN ts2.nodes)

\* C14 happens: the second synchronize of inputs with different timestamp
\* sets and a common timestamp
C14_Witness ==
    /\ op.name = "synchronize again"
    /\ (DOMAIN ts2.nodes) \ (DOMAIN ts.nodes) # {}
    /\ (DOMAIN ts.nodes) \ (DOMAIN ts2.nodes) # {}
    /\ DOMAIN ret.ts2_sync.nodes # {}

\* C15: calculate_quality(obs, sim) changes each input only by deleting its
\* own missing nodes, and computes over exactly the timestamps both series
\* hold after that deletion, with each series' values there.
C15_QualityDeletesOwnNan ==
    op.name = "calculate_quality" =>
        /\ ts.nodes = Restrict(pre.ts1.nodes,
                               {k \in DOMAIN pre.ts1.nodes :
                                   pre.ts1.nodes[k] \notin {nan, nan_other}})
        /\ ts2.nodes = Restrict(pre.ts2.nodes,
                                {k \in DOMAIN pre.ts2.nodes :
                                    pre.ts2.nodes[k] \notin {nan, nan_other}})
        /\ {ret.dates[i] : i \in 1 .. Len(ret.dates)}
              = (DOMAIN ts.nodes) \cap (DOMAIN ts2.nodes)
        /\ Len(ret.obs) = Len(ret.dates)
        /\ Len(ret.sim) = Len(ret.dates)
        /\ \A i \in 1 .. Len(ret.dates) :
              /\ ret.obs[i] = ts.nodes[ret.dates[i]]
              /\ ret.sim[i] = ts2.nodes[ret.dates[i]]

\* C15 happens: the observed series holds a missing node and a value node at
\* a timestamp the simulated series lacks, and metrics are computed
C15_Witness ==
    /\ op.name = "calculate_quality"
    /\ err = ""
    /\ \E k \in DOMAIN pre.ts1.nodes : isnan(pre.ts1.nodes[k])
    /\ \E k \in DOMAIN ts.nodes : k \notin DOMAIN pre.ts2.nodes

\* the four metrics of a perfect fit
PerfectFit(m) ==
    /\ m.nse.kind = "finite" /\ m.nse.num = m.nse.den
    /\ m.bias.kind = "finite" /\ m.bias.num = 0
    /\ m.rmse2.kind = "finite" /\ m.rmse2.num = 0
    /\ m.corrcoef2.kind = "finite" /\ m.corrcoef2.num = m.corrcoef2.den
    /\ m.corrcoef_sign = 1

\* the values of a nodes mapping that are not missing
ValueSet(nodes) == {nodes[k] : k \in DOMAIN nodes} \ {nan, nan_other}

C17_DegenerateNotRaising ==
    op.name = "calculate_quality" =>
        LET common == {k \in (DOMAIN pre.ts1.nodes) \cap (DOMAIN pre.ts2.nodes) :
                          /\ pre.ts1.nodes[k] \notin {nan, nan_other}
                          /\ pre.ts2.nodes[k] \notin {nan, nan_other}}
            aligned == {pre.ts1.nodes[k] : k \in common}
        IN  /\ SetSum(pre.ts1.nodes, common) = 0
                => (err = "" /\ ret.metrics.bias.kind # "finite")
            /\ Cardinality(aligned) <= 1
                => (err = "" /\ ret.metrics.nse.kind # "finite")

-----------------------------------------------------------------------------
(* Properties of write_to_file and read_file, checked under SpecCodec *)

\* the suffixes of the formats with a value-preserving round trip
RoundTripSuffixes == {".txt", ".csv", ".zrx", ".bin"}

\* whether a value is the one the format of the suffix writes for NaN
FormatSentinel(suffix, value) ==
    \/ suffix = ".zrx" /\ value = RINVAL
    \/ suffix = ".bin" /\ value = BIN_NAN

\* equality of two values in thousandths within the precision of the format:
\* single precision for bin, the shortest exact text otherwise
WithinPrecision(suffix, a, b) ==
    IF suffix = ".bin" THEN a - b \in -1 .. 1 ELSE a = b

\* C18: for each of the formats txt, csv, zrx and bin, the series read back
\* by read_file from the file write_to_file wrote has the timestamps of the
\* written series, a missing value where that one has a missing value, and
\* elsewhere the same value within the precision of the format (values that
\* are the format's own value for NaN left aside).
C18_RoundTrip ==
    (pc = "read" /\ ret.suffix \in RoundTripSuffixes)
    => /\ err = ""
       /\ DOMAIN ts2.nodes = DOMAIN ts.nodes
       /\ \A t \in DOMAIN ts.nodes :
            IF isnan(ts.nodes[t]) THEN isnan(ts2.nodes[t])
            ELSE \/ FormatSentinel(ret.suffix, ts.nodes[t])
                 \/ /\ ~isnan(ts2.nodes[t])
                    /\ WithinPrecision(ret.suffix, ts.nodes[t], ts2.nodes[t])

\* the record of a bin file for the timestamp t
BinRecord(file, t) ==
    CHOOSE r \in {file[i] : i \in 2 .. Len(file)} : r.date = <<date_to_double(t)>>

\* C19: a bin file holds for a missing value the single nearest -9999.999,
\* every stored single within 1e-4 of -9999.999 is read as missing (the
\* singles around it are 1/1024 apart, so that is this single alone), the
\* timestamps read are those written and 5.0 is read as 5.0.
C19_BinSentinel ==
    (pc = "read" /\ ret.suffix = ".bin")
    => /\ err = ""
       /\ DOMAIN ts2.nodes = DOMAIN ts.nodes
       /\ Len(ret.file) = 1 + Cardinality(DOMAIN ts.nodes)
       /\ \A t \in DOMAIN ts.nodes :
            /\ isnan(ts.nodes[t])
                  => BinRecord(ret.file, t).tok.milli = to_single(BIN_NAN)
            /\ BinRecord(ret.file, t).tok.milli = to_single(BIN_NAN)
                  => ts2.nodes[t] = nan
            /\ ts.nodes[t] = 5000 => ts2.nodes[t] = 5000

\* C19 witness: the series {2020-01-01 00:00: 5.0, 2020-01-02 00:00: NaN}
\* written to a bin file and read back with 5.0 and a missing value
C19_Witness ==
    /\ pc = "read"
    /\ ret.suffix = ".bin"
    /\ ts.nodes = (DT(2020, 1, 1, 0) :> 5000 @@ DT(2020, 1, 2, 0) :> nan)
    /\ ts2.nodes = (DT(2020, 1, 1, 0) :> 5000 @@ DT(2020, 1, 2, 0) :> nan)

IsUvfData(line) == line.kind = "uvf_data"

IsUvfTitle(line) == line.kind = "uvf_title"

\* the position of the first line of a UVF file that starts with *Z
FirstZ(file) ==
    CHOOSE i \in 1 .. Len(file) :
        file[i].kind = "*Z" /\ \A j \in 1 .. i - 1 : file[j].kind # "*Z"

\* the lines of a UVF file after the four lines of the header, the first of
\* which is the line that starts with *Z
DataSection(file) == SubSeq(file, FirstZ(file) + 4, Len(file))

\* the data lines of a UVF file
UvfData(file) == SelectSeq(DataSection(file), IsUvfData)

\* the fields of a data line as one number, two-digit year first
Stamp(line) == DT(line.date[1], line.date[2], line.date[3], line.date[4])

\* data lines in time order: every line is later in the same century than
\* the line before it, or has a lower two-digit year (the next century)
InTimeOrder(L) ==
    \A i \in 1 .. Len(L) - 1 :
        \/ Stamp(L[i + 1]) > Stamp(L[i])
        \/ L[i + 1].date[1] < L[i].date[1]

\* the number of data lines up to line i with a lower two-digit year than
\* the data line before them
Rollovers(L, i) ==
    Cardinality({j \in 2 .. i : L[j].date[1] < L[j - 1].date[1]})

\* the full timestamp of data line i for the start century of the header
FullTimestamp(L, century, i) ==
    DT(century + 100 * Rollovers(L, i) + L[i].date[1],
       L[i].date[2], L[i].date[3], L[i].date[4])

\* C20: read_uvf of data lines in time order gives, line by line, strictly
\* increasing timestamps whose century is the start century of the header
\* plus 100 for every data line so far with a lower two-digit year than the
\* data line before it, and for nothing else.
C20_CenturyRollover ==
    (/\ pc = "read"
     /\ ret.suffix = ".uvf"
     /\ UvfData(ret.file) # <<>>
     /\ InTimeOrder(UvfData(ret.file)))
    => /\ err = ""
       /\ dates(ts2) =
            [i \in 1 .. Len(UvfData(ret.file)) |->
                FullTimestamp(UvfData(ret.file),
                              SelectSeq(ret.file, IsUvfTitle)[1].text.century_start,
                              i)]

\* C20 witness: data lines of the two-digit years 99, 00 and 01 read as
\* 1999, 2000 and 2001
C20_Witness ==
    /\ pc = "read"
    /\ ret.suffix = ".uvf"
    /\ Len(UvfData(ret.file)) = 3
    /\ [i \in 1 .. 3 |-> UvfData(ret.file)[i].date[1]] = <<99, 0, 1>>
    /\ dates(ts2) = <<DT(1999, 1, 1, 0), DT(2000, 1, 1, 0), DT(2001, 1, 1, 0)>>

-----------------------------------------------------------------------------
(* The keys of nodes after add_node, checked under Spec *)

\* whether a key of nodes is a naive datetime.datetime of the calendar
IsNaiveDatetime(k) ==
    /\ k > 0
    /\ Month(k) \in 1 .. 12
    /\ d_ok(k)
    /\ Hour(k) \in 0 .. 23

\* C28: every key of nodes is a naive datetime; add_node of a date stores the
\* date at midnight, add_node of a datetime with a tzinfo stores its fields
\* without the tzinfo, either one raising KeyError and storing nothing when
\* that naive timestamp is already a key; add_node of another object raises
\* ValueError and leaves nodes unchanged.
C28_KeysNaive ==
    /\ \A k \in DOMAIN ts.nodes : IsNaiveDatetime(k)
    /\ op.name = "add_node" =>
         IF op.timestamp.kind \notin {"datetime", "date"}
         THEN err = "ValueError" /\ ts.nodes = pre.nodes
         ELSE IF Naive(op.timestamp) \in DOMAIN pre.nodes
         THEN err = "KeyError" /\ ts.nodes = pre.nodes
         ELSE /\ err = ""
              /\ DOMAIN ts.nodes = DOMAIN pre.nodes \cup {Naive(op.timestamp)}
              /\ ts.nodes[Naive(op.timestamp)] = op.value
              /\ \A k \in DOMAIN pre.nodes : ts.nodes[k] = pre.nodes[k]

\* C28 witness: a datetime with a tzinfo was added to a series that holds a
\* node already, and is a key without its tzinfo
C28_Witness ==
    /\ op.name = "add_node"
    /\ op.timestamp.kind = "datetime"
    /\ op.timestamp.tzinfo = "UTC"
    /\ err = ""
    /\ pre.nodes # <<>>
    /\ op.timestamp.val \in DOMAIN ts.nodes
    /\ op.timestamp.val \notin DOMAIN pre.nodes

-----------------------------------------------------------------------------
(* Timeseries.add_months applied to a drawn timestamp *)

\* the most months added in one call
MaxMonths == 2

\* the timestamps handed to add_months: the first and the last days of every
\* month of a common year and of a leap year, at midnight and at 13:00
SourceDates ==
    {t \in {DT(y, m, d, h) : y \in {2019, 2020}, m \in 1 .. 12,
                              d \in {1, 28, 29, 30, 31}, h \in {0, 13}} : d_ok(t)}

InitMonths ==
    /\ ts = Timeseries("")
    /\ ts2 = Timeseries("")
    /\ op = NoOp
    /\ pre \in SourceDates
    /\ err = ""
    /\ ret = 0
    /\ pc = "ready"

\* ret = Timeseries.add_months(sourcedate, months)
AddMonths(months) ==
    /\ pc = "ready"
    /\ pc' = "done"
    /\ op' = [NoOp EXCEPT !.name = "add_months", !.value = months]
    /\ ret' = add_months(pre, months)
    /\ UNCHANGED <<ts, ts2, pre, err>>

NextMonths == \E months \in 0 .. MaxMonths : AddMonths(months)

SpecMonths == InitMonths /\ [][NextMonths]_vars

\* the length of a month of the calendar, by its rules: thirty days have
\* months 4, 6, 9 and 11, February 28 or 29, the others 31
MonthLength(y, m) ==
    CASE m \in {4, 6, 9, 11} -> 30
      [] m = 2 -> IF (y % 4 = 0 /\ y % 100 # 0) \/ y % 400 = 0 THEN 29 ELSE 28
      [] OTHER -> 31

\* C29: add_months(d, 1) is in the month after d's month, January of the
\* next year after December, at d's time of day, on the day
\* min(d.day, length of that month): Jan 31 gives Feb 28 in the common year
\* 2019 and Feb 29 in the leap year 2020.
C29_AddOneMonth ==
    (op.name = "add_months" /\ op.value = 1)
    => /\ Year(ret) = (IF Month(pre) = 12 THEN Year(pre) + 1 ELSE Year(pre))
       /\ Month(ret) = (IF Month(pre) = 12 THEN 1 ELSE Month(pre) + 1)
       /\ Hour(ret) = Hour(pre)
       /\ Day(ret) = Min2(Day(pre), MonthLength(Year(ret), Month(ret)))
       /\ pre = DT(2019, 1, 31, 13) => ret = DT(2019, 2, 28, 13)
       /\ pre = DT(2020, 1, 31, 0) => ret = DT(2020, 2, 29, 0)

\* C29 witness: one month added to Dec 31 13:00 gives Jan 31 13:00 of the
\* next year
C29_Witness ==
    /\ op.name = "add_months"
    /\ op.value = 1
    /\ pre = DT(2019, 12, 31, 13)
    /\ ret = DT(2020, 1, 31, 13)

-----------------------------------------------------------------------------
(* The windows of the buckets of aggregate, checked under SpecDerive *)

RECURSIVE OnStepGrid(_, _, _)
\* whether k is t plus a whole number of steps dt
OnStepGrid(t, dt, k) ==
    IF t >= k THEN t = k ELSE OnStepGrid(t_next_of(t, dt), dt, k)

\* the source nodes of the aggregate call recorded in op whose timestamp lies
\* in the step that begins at k
Window(k) ==
    {d \in FromStart(pre.nodes, op.start) : k <= d /\ d < t_next_of(k, op.dt)}

\* C25: every key of the series aggregate returns is start plus a whole
\* number of steps, the bucket keyed t holds exactly the source nodes with
\* t <= timestamp < t + step, also across gaps of more than one step, and
\* every source node at or after start is in a bucket.
C25_BucketWindows ==
    (op.name = "aggregate" /\ err = "") =>
        /\ DOMAIN ts2.nodes = DOMAIN Buckets
        /\ \A k \in DOMAIN Buckets :
              /\ OnStepGrid(op.start, op.dt, k)
              /\ Buckets[k] = Window(k)
        /\ \A d \in FromStart(pre.nodes, op.start) :
              \E k \in DOMAIN Buckets : d \in Buckets[k]

-----------------------------------------------------------------------------
(* Timeseries.read_fews.                                                   *)
(*                                                                         *)
(* A PI-XML document is the sequence of its series elements; a series      *)
(* element is the record of the texts of its header elements and of the    *)
(* sequence of its event elements.  The mapping returned is                *)
(* result[location_id][parameter_id], an entry being a Series or None.     *)

\* header.find(...) of an element the header does not have
NoElement == "<absent>"

\* an entry of the mapping returned: None, and a Series
None == [none |-> TRUE, ts |-> Timeseries("")]

Some(ts_) == [none |-> FALSE, ts |-> ts_]

\* the text of an event value that is no number
TextTok == [kind |-> "text", milli |-> 0]

\* the value of an event: [value, err]
fews_value(value_str, error_value) ==
    IF value_str = NoTok \/ value_str = error_value
    THEN [value |-> nan, err |-> ""]
    ELSE IF value_str.kind = "text" THEN [value |-> 0, err |-> "ValueError"]
    ELSE [value |-> float(value_str), err |-> ""]

RECURSIVE fews_events(_, _, _, _)
\* the loop of read_fews over the event elements of a series from event i on
fews_events(events, i, ts_, error_value) ==
    IF i > Len(events) THEN [ts |-> ts_, err |-> ""]
    ELSE IF events[i].flag \notin {"0", "1", "2", "3", "4", "5", "6", "7", "8", "9"}
    THEN [ts |-> ts_, err |-> "ValueError"]
    ELSE IF fews_value(events[i].value, error_value).err # ""
    THEN [ts |-> ts_, err |-> fews_value(events[i].value, error_value).err]
    ELSE LET t == strptime(events[i].date \o events[i].time)
             r == add_node(ts_, datetime(t),
                           fews_value(events[i].value, error_value).value)
         IN  IF r.err # "" THEN r
             ELSE fews_events(events, i + 1, r.ts, error_value)

\* the interpretation of a header type: [interpretation, err]
fews_type(type_) ==
    IF type_ = "instantaneous"
    THEN [interpretation |-> Interpretation.Instantaneous, err |-> ""]
    ELSE IF type_ = "mean"
    THEN [interpretation |-> Interpretation.BlockRight, err |-> ""]
    ELSE IF type_ = "accumulative"
    THEN [interpretation |-> Interpretation.CumulativePerTimestep, err |-> ""]
    ELSE [interpretation |-> Interpretation.Undefined, err |-> "Exception"]

\* the Series of a series element whose header was read: [ts, err]
fews_series(series) ==
    LET ts0 == [Timeseries("") EXCEPT
                  !.title = series.locationId \o "." \o series.parameterId,
                  !.param = series.parameterId,
                  !.station_name = series.locationId \o "." \o series.stationName,
                  !.unit = series.units,
                  !.station_id = series.locationId]
    IN  IF fews_type(series.type).err # ""
        THEN [ts |-> ts0, err |-> fews_type(series.type).err]
        ELSE fews_events(series.events, 1,
                         [ts0 EXCEPT !.interpretation =
                                        fews_type(series.type).interpretation],
                         series.missVal)

\* result[location_id][parameter_id] = entry
fews_store(result, location_id, parameter_id, entry) ==
    setitem(result, location_id,
            setitem(IF location_id \in DOMAIN result THEN result[location_id]
                    ELSE <<>>,
                    parameter_id, entry))

RECURSIVE read_fews_loop(_, _, _, _)
\* the loop of read_fews over the series elements from element i on; log is
\* the sequence of the errors logged; no exception leaves the loop
read_fews_loop(doc, i, result, log) ==
    IF i > Len(doc) THEN [result |-> result, log |-> log, err |-> ""]
    ELSE IF doc[i].type = NoElement
    THEN read_fews_loop(doc, i + 1, result, Append(log, "AttributeError"))
    ELSE IF fews_series(doc[i]).err # ""
    THEN read_fews_loop(doc, i + 1,
                        fews_store(result, doc[i].locationId,
                                   doc[i].parameterId, None),
                        Append(log, fews_series(doc[i]).err))
    ELSE read_fews_loop(doc, i + 1,
                        fews_store(result, doc[i].locationId, doc[i].parameterId,
                                   Some(fews_series(doc[i]).ts)),
                        log)

\* Timeseries.read_fews(filename): [result, log, err]
read_fews(doc) == read_fews_loop(doc, 1, <<>>, <<>>)

\* the most series elements of a drawn document
MaxSeries == 2

\* an event element
Event(day, flag, value) ==
    [date |-> <<2021, 7, day>>, time |-> <<16, 0, 0>>, flag |-> flag,
     value |-> value]

\* the event lists of the drawn series elements: a value and the missVal
\* text, one timestamp twice, and a value that is no number
EventLists ==
    {<<Event(5, "2", NumTok(177000)), Event(6, "2", NumTok(-999000))>>,
     <<Event(5, "2", NumTok(177000)), Event(5, "2", NumTok(5000))>>,
     <<Event(5, "2", TextTok)>>}

\* the drawn series elements
SeriesElements ==
    {[type |-> type_, locationId |-> l, parameterId |-> p, stationName |-> "S",
      units |-> "m3/s", missVal |-> NumTok(-999000), events |-> e] :
        type_ \in {"instantaneous", "mean", "accumulative", "other", NoElement},
        l \in {"A", "B"}, p \in {"Q", "H"}, e \in EventLists}

InitFews ==
    /\ ts = Timeseries("")
    /\ ts2 = Timeseries("")
    /\ op = NoOp
    /\ pre \in UNION {[1 .. n -> SeriesElements] : n \in 0 .. MaxSeries}
    /\ err = ""
    /\ ret = [result |-> <<>>, log |-> <<>>, err |-> ""]
    /\ pc = "ready"

\* ret = Timeseries.read_fews(filename) of the document pre
ReadFews ==
    /\ pc = "ready"
    /\ pc' = "done"
    /\ op' = [NoOp EXCEPT !.name = "read_fews"]
    /\ ret' = read_fews(pre)
    /\ err' = read_fews(pre).err
    /\ UNCHANGED <<ts, ts2, pre>>

NextFews == ReadFews

SpecFews == InitFews /\ [][NextFews]_vars

-----------------------------------------------------------------------------
(* Properties of read_fews, checked under SpecFews *)

\* the interpretation the specification gives a header type
TypeInterpretation(type_) ==
    CASE type_ = "instantaneous" -> Interpretation.Instantaneous
      [] type_ = "mean" -> Interpretation.BlockRight
      [] type_ = "accumulative" -> Interpretation.CumulativePerTimestep
      [] OTHER -> Interpretation.Undefined

KnownTypes == {"instantaneous", "mean", "accumulative"}

\* C21: every Series read_fews returns has the interpretation its header
\* type maps to, and a document with a series element of another type makes
\* read_fews raise to its caller.
C21_TypeMapping ==
    op.name = "read_fews" =>
        /\ \A l \in DOMAIN ret.result : \A p \in DOMAIN ret.result[l] :
              ~ret.result[l][p].none =>
                 \E i \in 1 .. Len(pre) :
                    /\ pre[i].locationId = l
                    /\ pre[i].parameterId = p
                    /\ pre[i].type \in KnownTypes
                    /\ ret.result[l][p].ts.interpretation =
                          TypeInterpretation(pre[i].type)
        /\ (\E i \in 1 .. Len(pre) : pre[i].type \notin KnownTypes \cup {NoElement})
              => err # ""

\* whether series element i of the document decodes to a Series
Decodes(doc, i) == doc[i].type # NoElement /\ fews_series(doc[i]).err = ""

\* C30: every entry of the mapping read_fews returns is a Series, and a pair
\* for which a series element decoded holds the Series of the last series
\* element that decoded for it, whatever failed for that pair.
C30_NoPlaceholder ==
    op.name = "read_fews" =>
        /\ \A l \in DOMAIN ret.result : \A p \in DOMAIN ret.result[l] :
              ~ret.result[l][p].none
        /\ \A i \in 1 .. Len(pre) :
              (/\ Decodes(pre, i)
               /\ \A j \in (i + 1) .. Len(pre) :
                     ~(/\ Decodes(pre, j)
                       /\ pre[j].locationId = pre[i].locationId
                       /\ pre[j].parameterId = pre[i].parameterId))
              => /\ pre[i].locationId \in DOMAIN ret.result
                 /\ pre[i].parameterId \in DOMAIN ret.result[pre[i].locationId]
                 /\ ret.result[pre[i].locationId][pre[i].parameterId]
                       = Some(fews_series(pre[i]).ts)

-----------------------------------------------------------------------------
(* File handles after write_to_file and read_file, checked under SpecCodec *)

\* C23: when write_to_file or a reader called by read_file has returned or
\* raised, also after a failure partway through the file, no file handle it
\* opened is open.
C23_HandlesClosed ==
    op.name \in {"write_to_file", "read_file"} => op.open_handles = {}

-----------------------------------------------------------------------------
(* The modes of read_uvf, checked under SpecCodec *)

\* the mode of read_uvf in a state of its loop: 1 attributes, 2 header,
\* 3 data
Mode(st) == IF st.is_data THEN 3 ELSE IF st.is_header THEN 2 ELSE 1

\* the state of read_uvf after the first i lines of the file
AfterLines(file, i) == read_uvf_loop(SubSeq(file, 1, i), 1, read_uvf_init)

IsNotBlank(line) == line.kind # "blank"

\* C24: read_uvf is in the mode attributes before the first line that starts
\* with *Z, in the mode header from that line for four lines and in the mode
\* data after them, never back in an earlier mode; no node is added before
\* the data, and every line of the data that is not blank is added as a
\* node, beginning with the first.
C24_UvfModes ==
    (pc = "read" /\ ret.suffix = ".uvf") =>
        /\ \A i \in 0 .. Len(ret.file) :
              AfterLines(ret.file, i).err = "" =>
                 /\ Mode(AfterLines(ret.file, i)) =
                       (IF i < FirstZ(ret.file) THEN 1
                        ELSE IF i < FirstZ(ret.file) + 4 THEN 2 ELSE 3)
                 /\ i < FirstZ(ret.file) + 4
                       => AfterLines(ret.file, i).ts.nodes = <<>>
                 /\ i > 0 => Mode(AfterLines(ret.file, i - 1))
                                <= Mode(AfterLines(ret.file, i))
        /\ err = "" =>
              /\ Cardinality(DOMAIN ts2.nodes)
                    = Len(SelectSeq(DataSection(ret.file), IsNotBlank))
              /\ UvfData(ret.file) # <<>> =>
                    FullTimestamp(UvfData(ret.file),
                                  SelectSeq(ret.file, IsUvfTitle)[1].text.century_start,
                                  1) \in DOMAIN ts2.nodes

\* C24 witness: a file with a line like a data line among the attributes and
\* an empty line between two data lines was read into two nodes, the first
\* of them of the first data line
C24_Witness ==
    /\ pc = "read"
    /\ ret.suffix = ".uvf"
    /\ err = ""
    /\ ret.file[1] = StrayLine
    /\ Len(DataSection(ret.file)) = 3
    /\ DataSection(ret.file)[2].kind = "blank"
    /\ DataSection(ret.file)[1].kind = "uvf_data"
    /\ DataSection(ret.file)[1].date[1] = 99
    /\ DOMAIN ts2.nodes = {DT(1999, 1, 1, 0), DT(2000, 6, 1, 0)}

-----------------------------------------------------------------------------
(* Timeseries.read_wel and Timeseries.read_wbl.                            *)
(*                                                                         *)
(* A WEL file is the sequence of its lines, a line the sequence of its     *)
(* columns of 16 characters (after the leading character is removed): the  *)
(* first column of a data row is its date string, the others are the texts *)
(* of its values.  A WBL file is the record of its WELINFO file (datatype, *)
(* columns) and of its records (rDate, one stored value per column); the   *)
(* reader moves a position in bytes over it.  Both readers return          *)
(* [ret |-> the list of series, err |-> the exception raised,              *)
(*  log |-> the warnings logged, reads |-> the reads of read_wbl].         *)

NoSeries == [ret |-> <<>>, err |-> "", log |-> <<>>, reads |-> <<>>]

\* Timeseries(name) with the metadata the two readers set
wel_series(name, unit) ==
    [Timeseries(name) EXCEPT !.station_name = name, !.unit = unit,
                             !.interpretation = Interpretation.BlockRight]

\* series_available of read_wel: the names of columns 1 to n - 1 of the
\* second line
series_available(line) == [idx \in 1 .. Len(line) - 1 |-> line[idx + 1]]

\* the first index of series_available with the name, 0 for none
wel_index(available, name) ==
    IF \E idx \in DOMAIN available : available[idx] = name
    THEN CHOOSE idx \in DOMAIN available :
            /\ available[idx] = name
            /\ \A j \in DOMAIN available : available[j] = name => idx <= j
    ELSE 0

RECURSIVE wel_indices(_, _, _, _)
\* indices_to_import of read_wel for the names passed from name k on
wel_indices(series, k, available, indices) ==
    IF k > Len(series) THEN [indices |-> indices, err |-> ""]
    ELSE IF wel_index(available, series[k]) = 0
    THEN [indices |-> indices, err |-> "Exception"]
    ELSE wel_indices(series, k + 1, available,
                     Append(indices, wel_index(available, series[k])))

\* the columns line[idx*16:(idx*16)+16] of a line: "" beyond its end
wel_column(line, idx) == IF idx + 1 <= Len(line) THEN line[idx + 1] ELSE NoTok

\* the unit column of the third line
wel_unit(line, idx) == IF idx + 1 <= Len(line) THEN line[idx + 1] ELSE ""

\* the date of a data row: a time of day left blank is read as 00:00
wel_date(datestring) ==
    IF datestring.time = <<>>
    THEN DT(datestring.date[3], datestring.date[2], datestring.date[1], 0)
    ELSE DT(datestring.date[3], datestring.date[2], datestring.date[1],
            datestring.time[1])

\* the value of a column with the ValueError of float(string) raised
wel_value_raising(string) ==
    IF string.kind \in {"num", "nan"} THEN [value |-> float(string), warning |-> FALSE, err |-> ""]
    ELSE [value |-> nan, warning |-> FALSE, err |-> "ValueError"]

\* the value of a column: float(string), np.nan with a warning when that
\* raises ValueError
wel_value(string) ==
    IF string.kind \in {"num", "nan"} THEN [value |-> float(string), warning |-> FALSE, err |-> ""]
    ELSE [value |-> nan, warning |-> TRUE, err |-> ""]

RECURSIVE wel_row(_, _, _, _, _)
\* the loop over indices_to_import for one data row, from position k on
wel_row(ts_dict, indices, k, line, log) ==
    IF k > Len(indices) THEN [ts_dict |-> ts_dict, log |-> log, err |-> ""]
    ELSE LET v == wel_value(wel_column(line, indices[k]))
             r == add_node(ts_dict[indices[k]], datetime(wel_date(line[1])), v.value)
             log1 == IF v.warning
                     THEN Append(log, [timestamp |-> wel_date(line[1]),
                                       idx |-> indices[k]])
                     ELSE log
         IN  IF v.err # "" THEN [ts_dict |-> ts_dict, log |-> log, err |-> v.err]
             ELSE IF r.err # "" THEN [ts_dict |-> ts_dict, log |-> log1, err |-> r.err]
             ELSE wel_row([ts_dict EXCEPT ![indices[k]] = r.ts], indices, k + 1,
                          line, log1)

RECURSIVE wel_rows(_, _, _, _, _)
\* the loop of read_wel over the data rows, line i >= 4 on
wel_rows(file, i, ts_dict, indices, log) ==
    IF i > Len(file) THEN [ts_dict |-> ts_dict, log |-> log, err |-> ""]
    ELSE IF file[i] = <<>>
    THEN [ts_dict |-> ts_dict, log |-> log, err |-> "ValueError"]
    ELSE LET r == wel_row(ts_dict, indices, 1, file[i], log)
         IN  IF r.err # "" THEN r
             ELSE wel_rows(file, i + 1, r.ts_dict, indices, r.log)

\* the part of read_wel for a text file
read_wel_text(file, series) ==
    IF Len(file) < 2 THEN NoSeries
    ELSE LET available == series_available(file[2])
             found == IF series = <<>>
                      THEN [indices |-> [idx \in DOMAIN available |-> idx], err |-> ""]
                      ELSE wel_indices(series, 1, available, <<>>)
             indices == found.indices
             ts_dict == IF Len(file) < 3 THEN <<>>
                        ELSE [idx \in {indices[k] : k \in DOMAIN indices} |->
                                 wel_series(available[idx], wel_unit(file[3], idx))]
             rows == wel_rows(file, 4, ts_dict, indices, <<>>)
         IN  IF found.err # "" THEN [NoSeries EXCEPT !.err = found.err]
             ELSE IF rows.err # ""
             THEN [NoSeries EXCEPT !.err = rows.err, !.log = rows.log]
             ELSE IF indices # <<>> /\ Len(file) < 3
             THEN [NoSeries EXCEPT !.err = "KeyError"]
             ELSE [NoSeries EXCEPT
                     !.ret = [k \in DOMAIN indices |-> rows.ts_dict[indices[k]]],
                     !.log = rows.log]

\* the bytes of a value of the datatype of a WELINFO file, 0 for a datatype
\* that is not known
datalength(datatype) ==
    IF datatype \in {1, 2} THEN 4
    ELSE IF datatype = 3 THEN 8
    ELSE IF datatype = 4 THEN 1 ELSE 0

\* the bytes of a record: the date and one value per column
record_length(file) == 8 + datalength(file.datatype) * Len(file.columns)

\* the bytes of the file: the header and the records
file_size(file) == record_length(file) * (1 + Len(file.records))

\* what unpacking gives for bytes that do not begin where a value begins
Misread == 424242

\* the double at the position: the date of the record that begins there
date_at(file, pos) ==
    IF pos >= record_length(file) /\ pos % record_length(file) = 0
    THEN file.records[pos \div record_length(file)].rDate
    ELSE 0

\* the stored value at the position: that of the column that begins there
value_at(file, pos) ==
    LET offset == (pos % record_length(file)) - 8
    IN  IF /\ pos >= record_length(file)
           /\ offset >= 0
           /\ offset % datalength(file.datatype) = 0
        THEN file.records[pos \div record_length(file)]
                 .values[offset \div datalength(file.datatype) + 1]
        ELSE Misread

\* float(value) of a stored value (an integer, a single as in a bin file, a
\* double in thousandths, a boolean as 0 or 1), np.nan within 1e-4 of
\* -9999.999
wbl_value(datatype, stored) ==
    IF datatype = 1 THEN stored * 1000
    ELSE IF datatype = 2 THEN read_bin_value(stored)
    ELSE IF datatype = 3 THEN (IF stored = BIN_NAN THEN nan ELSE stored)
    ELSE stored * 1000

\* f.read(n) at a position: the position afterwards; n = -1 reads to the end
\* of the file, a smaller n raises ValueError
wbl_read(file, st, n) ==
    IF n < -1 THEN [st EXCEPT !.err = "ValueError"]
    ELSE IF n = -1 \/ st.pos + n > file_size(file)
    THEN [st EXCEPT !.pos = file_size(file)]
    ELSE [st EXCEPT !.pos = @ + n]

RECURSIVE sorted_list(_)
\* sorted(indices) of a list
sorted_list(indices) ==
    IF indices = <<>> THEN <<>>
    ELSE LET k == CHOOSE k \in DOMAIN indices :
                     \A j \in DOMAIN indices : indices[k] <= indices[j]
         IN  <<indices[k]>>
             \o sorted_list([j \in 1 .. Len(indices) - 1 |->
                                IF j < k THEN indices[j] ELSE indices[j + 1]])

\* the skip to the next record left out
wbl_skip_ahead_none(file, position) == 0

\* the bytes skipped after the last value read of a record
wbl_skip_ahead(file, position) ==
    datalength(file.datatype) * (Len(file.columns) - position)

RECURSIVE wbl_values(_, _, _, _, _, _)
\* the loop over sorted(indices) for one record, from position k of the list
\* on; position is the column after the one read last
wbl_values(file, indices, k, position, timestamp, st) ==
    IF st.err # "" THEN st
    ELSE IF k > Len(indices)
    THEN wbl_read(file, st, wbl_skip_ahead(file, position))
    ELSE LET dl == datalength(file.datatype)
             st1 == wbl_read(file, st, dl * (indices[k] - position))
             name == file.columns[indices[k] + 1].name
             r == add_node(st1.ts_dict[name], datetime(timestamp),
                           wbl_value(file.datatype, value_at(file, st1.pos)))
         IN  IF st1.err # "" THEN st1
             ELSE IF st1.pos + dl > file_size(file)
             THEN [st1 EXCEPT !.err = "struct.error"]
             ELSE IF r.err # "" THEN [st1 EXCEPT !.err = r.err]
             ELSE wbl_values(file, indices, k + 1, indices[k] + 1, timestamp,
                             [st1 EXCEPT
                                !.pos = @ + dl,
                                !.ts_dict[name] = r.ts,
                                !.reads = Append(@, [kind |-> "value",
                                                     pos |-> st1.pos,
                                                     index |-> indices[k]])])

RECURSIVE wbl_records(_, _, _)
\* the loop of read_wbl over the records
wbl_records(file, indices, st) ==
    IF st.err # "" THEN st
    ELSE IF st.pos >= file_size(file)
    THEN [st EXCEPT !.reads = Append(@, [kind |-> "end", pos |-> st.pos,
                                         index |-> 0])]
    ELSE IF st.pos + 8 > file_size(file) THEN [st EXCEPT !.err = "struct.error"]
    ELSE wbl_records(file, indices,
                     wbl_values(file, indices, 1, 0,
                                double_to_date(date_at(file, st.pos)),
                                [st EXCEPT !.pos = @ + 8,
                                           !.reads = Append(@, [kind |-> "date",
                                                                pos |-> st.pos,
                                                                index |-> 0])]))

RECURSIVE wbl_indices(_, _, _, _)
\* the indices of the names passed in the list of the names of the columns,
\* from name k on
wbl_indices(series, k, names, indices) ==
    IF k > Len(series) THEN [indices |-> indices, err |-> ""]
    ELSE IF \A j \in DOMAIN names : names[j] # series[k]
    THEN [indices |-> indices, err |-> "Exception"]
    ELSE wbl_indices(series, k + 1, names,
                     Append(indices,
                            (CHOOSE j \in DOMAIN names :
                                /\ names[j] = series[k]
                                /\ \A i \in DOMAIN names :
                                      names[i] = series[k] => j <= i) - 1))

\* Timeseries.read_wbl(filename, series)
read_wbl(file, series) ==
    IF Len(file.columns) = 0 \/ datalength(file.datatype) = 0
    THEN [NoSeries EXCEPT !.err = "Exception"]
    ELSE LET names == [j \in DOMAIN file.columns |-> file.columns[j].name]
             series1 == IF series = <<>> THEN names ELSE series
             found == wbl_indices(series1, 1, names, <<>>)
             ts_dict == [name \in {names[j] : j \in DOMAIN names} |->
                            wel_series(name,
                                       file.columns[CHOOSE j \in DOMAIN names :
                                                       names[j] = name].unit)]
             st == wbl_records(file, sorted_list(found.indices),
                               [pos |-> record_length(file), ts_dict |-> ts_dict,
                                reads |-> <<>>, err |-> ""])
         IN  IF found.err # "" THEN [NoSeries EXCEPT !.err = found.err]
             ELSE IF st.err # ""
             THEN [NoSeries EXCEPT !.err = st.err, !.reads = st.reads]
             ELSE [NoSeries EXCEPT
                     !.ret = [k \in DOMAIN series1 |-> st.ts_dict[series1[k]]],
                     !.reads = st.reads]

\* Timeseries.read_wel(filename, series): a file with the suffix .wbl is
\* handed to read_wbl
read_wel(file, series) ==
    IF file.suffix = ".wbl" THEN read_wbl(file, series)
    ELSE read_wel_text(file.lines, series)

-----------------------------------------------------------------------------
(* The files and the requests read_wel and read_wbl are run on *)

MaxRows == 2

MaxRequest == 2

\* the names and units of the columns of the files
Columns ==
    <<[name |-> "A", unit |-> "m3/s"], [name |-> "B", unit |-> "mm"],
      [name |-> "C", unit |-> "oC"]>>

\* the date string of a data row: the day of January 2000, the time of day
\* (hour, minute) or <<>> for a time left blank
DateString(day, time) == [date |-> <<day, 1, 2000>>, time |-> time]

\* the data rows: all values numbers, the value of A a text that is no
\* number, or the value of B the text nan and the row ended before C
WelRows ==
    {<<DateString(day, time), IF text THEN TextTok ELSE NumTok(11000 + day),
       NumTok(12000 + day), NumTok(13000 + day)>> :
        day \in 1 .. 2, time \in {<<>>, <<6, 0>>}, text \in BOOLEAN}
    \cup {<<DateString(day, time), NumTok(11000 + day), NanTok>> :
            day \in 1 .. 2, time \in {<<>>, <<6, 0>>}}

\* a WEL file: the title line, the names, the units and the data rows
WelFile(rows) ==
    [suffix |-> ".wel",
     lines |-> << <<>>,
                  <<"Datum_Zeit", "A", "B", "C">>,
                  <<"-", "m3/s", "mm", "oC">> >> \o rows,
     datatype |-> 0, columns |-> <<>>, records |-> <<>>]

WelFiles ==
    {WelFile(rows) : rows \in UNION {[1 .. n -> WelRows] : n \in 0 .. MaxRows}}

\* the value of record r and column c (from 0) as the datatype stores it
StoredValue(datatype, r, c) ==
    IF datatype = 1 THEN 10 * r + c
    ELSE IF datatype = 2 THEN to_single((10 * r + c) * 1000 + 500)
    ELSE IF datatype = 3 THEN (10 * r + c) * 1000 + 500
    ELSE (r + c) % 2

\* -9999.999 as the datatype stores it, for the datatypes that can
StoredMissing(datatype, r, c) ==
    IF datatype = 2 THEN to_single(BIN_NAN)
    ELSE IF datatype = 3 THEN BIN_NAN
    ELSE StoredValue(datatype, r, c)

\* record r of a WBL file: midnight of day r of January 2000 and the values
\* of the columns, that of B missing in some
WblRecord(datatype, r, missing) ==
    [rDate |-> date_to_double(DT(2000, 1, r, 0)),
     values |-> [j \in 1 .. Len(Columns) |->
                   IF missing /\ j = 2 THEN StoredMissing(datatype, r, j - 1)
                   ELSE StoredValue(datatype, r, j - 1)]]

WblFiles ==
    {[suffix |-> ".wbl", lines |-> <<>>, datatype |-> datatype,
      columns |-> Columns,
      records |-> [r \in 1 .. n |-> WblRecord(datatype, r, missing[r])]] :
        datatype \in 1 .. 4,
        missing \in [1 .. MaxRows -> BOOLEAN],
        n \in 0 .. MaxRows}

\* the lists of names passed: names of the file and a name that is not
Requests == UNION {[1 .. n -> {"A", "C", "X"}] : n \in 0 .. MaxRequest}

InitWel ==
    /\ ts = Timeseries("")
    /\ ts2 = Timeseries("")
    /\ op = NoOp
    /\ pre \in [file : WelFiles \cup WblFiles, series : Requests]
    /\ err = ""
    /\ ret = NoSeries
    /\ pc = "ready"

\* ret = Timeseries.read_wel(filename, series) of the file and names of pre
ReadWel ==
    /\ pc = "ready"
    /\ pc' = "done"
    /\ op' = [NoOp EXCEPT !.name = "read_wel"]
    /\ ret' = read_wel(pre.file, pre.series)
    /\ err' = read_wel(pre.file, pre.series).err
    /\ UNCHANGED <<ts, ts2, pre>>

\* ret = Timeseries.read_wbl(filename, series) of a WBL file
ReadWbl ==
    /\ pc = "ready"
    /\ pre.file.suffix = ".wbl"
    /\ pc' = "done"
    /\ op' = [NoOp EXCEPT !.name = "read_wbl"]
    /\ ret' = read_wbl(pre.file, pre.series)
    /\ err' = read_wbl(pre.file, pre.series).err
    /\ UNCHANGED <<ts, ts2, pre>>

NextWel == ReadWel \/ ReadWbl

SpecWel == InitWel /\ [][NextWel]_vars

-----------------------------------------------------------------------------
(* Claims on read_wel and read_wbl *)

\* the names of the columns of the file of pre
FileNames == {Columns[j].name : j \in DOMAIN Columns}

\* the number of the column with the name, from 1
ColumnOf(name) == CHOOSE j \in DOMAIN Columns : Columns[j].name = name

\* the data rows of a WEL file
DataRows(file) == SubSeq(file.lines, 4, Len(file.lines))

\* the timestamp written in the date string of a data row
RowTimestamp(row) ==
    DT(row[1].date[3], row[1].date[2], row[1].date[1],
       IF row[1].time = <<>> THEN 0 ELSE row[1].time[1])

\* the text of column j of a data row is no number
Unparseable(row, j) ==
    j + 1 > Len(row) \/ row[j + 1].kind \notin {"num", "nan"}

\* the value written in column j of a data row
RowValue(row, j) ==
    IF Unparseable(row, j) THEN nan
    ELSE IF row[j + 1].kind = "nan" THEN nan_other ELSE row[j + 1].milli

\* no two data rows or records of the file have the same timestamp
DistinctTimestamps(file) ==
    \A i, j \in DOMAIN DataRows(file) :
        RowTimestamp(DataRows(file)[i]) = RowTimestamp(DataRows(file)[j]) => i = j

\* the data of the column with the name: the values by timestamp
ColumnNodes(file, name) ==
    IF file.suffix = ".wbl"
    THEN [t \in {double_to_date(file.records[r].rDate) : r \in DOMAIN file.records} |->
            LET r == CHOOSE r \in DOMAIN file.records :
                        double_to_date(file.records[r].rDate) = t
            IN  wbl_value(file.datatype, file.records[r].values[ColumnOf(name)])]
    ELSE [t \in {RowTimestamp(DataRows(file)[i]) : i \in DOMAIN DataRows(file)} |->
            LET i == CHOOSE i \in DOMAIN DataRows(file) :
                        RowTimestamp(DataRows(file)[i]) = t
            IN  RowValue(DataRows(file)[i], ColumnOf(name))]

\* the list of names passed names columns of the file, none twice
IsSubset(series) ==
    /\ \A k \in DOMAIN series : series[k] \in FileNames
    /\ \A k, l \in DOMAIN series : series[k] = series[l] => k = l

\* the series returned are those of the names, in their order
SeriesOf(names) ==
    /\ err = ""
    /\ Len(ret.ret) = Len(names)
    /\ \A k \in DOMAIN names :
          /\ ret.ret[k].title = names[k]
          /\ ret.ret[k].nodes = ColumnNodes(pre.file, names[k])

\* C22: read_wel (and read_wbl) called with a list of series names returns
\* exactly one series per requested name, in the order requested, each
\* holding the data of the column of that name; a name that is not in the
\* file raises an error and no series is returned.
C22_SeriesPerName ==
    (pc = "done" /\ pre.series # <<>> /\ DistinctTimestamps(pre.file)) =>
        IF \A k \in DOMAIN pre.series : pre.series[k] \in FileNames
        THEN SeriesOf(pre.series)
        ELSE err # "" /\ ret.ret = <<>>

\* the reads of the dates of the records, in the order made
DateReads == SelectSeq(ret.reads, LAMBDA read : read.kind = "date")

\* C26: for every requested subset of the series read_wbl consumes exactly
\* 8 + datalength * column_count bytes per record: the date of record r is
\* read at r times that length, the end of the file is met at a record
\* boundary, every value is read at offset 8 + datalength * index of its
\* record, and the value stored for a selected series at the timestamp of a
\* record is the one at that offset.
C26_RecordBoundaries ==
    (pc = "done" /\ pre.file.suffix = ".wbl" /\ IsSubset(pre.series)) =>
        LET file == pre.file
            dl == datalength(file.datatype)
            len == 8 + dl * Len(file.columns)
            names == IF pre.series = <<>>
                     THEN [j \in DOMAIN Columns |-> Columns[j].name]
                     ELSE pre.series
        IN  /\ err = ""
            /\ Len(DateReads) = Len(file.records)
            /\ \A r \in DOMAIN DateReads : DateReads[r].pos = len * r
            /\ ret.reads # <<>>
            /\ ret.reads[Len(ret.reads)].kind = "end"
            /\ ret.reads[Len(ret.reads)].pos = len * (1 + Len(file.records))
            /\ \A i \in DOMAIN ret.reads :
                  ret.reads[i].kind = "value" =>
                      ret.reads[i].pos % len = 8 + dl * ret.reads[i].index
            /\ \A k \in DOMAIN names, r \in DOMAIN file.records :
                  /\ \E i \in DOMAIN ret.reads :
                        /\ ret.reads[i].kind = "value"
                        /\ ret.reads[i].index = ColumnOf(names[k]) - 1
                        /\ ret.reads[i].pos
                              = len * r + 8 + dl * (ColumnOf(names[k]) - 1)
                  /\ ret.ret[k].nodes[double_to_date(file.records[r].rDate)]
                        = wbl_value(file.datatype,
                                    file.records[r].values[ColumnOf(names[k])])

\* C26 witness: read_wbl has read the columns C and A, asked for in that
\* order, of a file of two records.
C26_Witness ==
    /\ pc = "done"
    /\ op.name = "read_wbl"
    /\ pre.file.suffix = ".wbl"
    /\ pre.series = <<"C", "A">>
    /\ Len(pre.file.records) = 2
    /\ err = ""
    /\ Len(ret.ret) = 2
    /\ Len(DateReads) = 2

\* C27: in read_wel a value of a data row that is no number becomes a node
\* with the missing value at the timestamp of the row, with a warning
\* logged, and the decode goes on: every row has its node in every series
\* returned; a row whose time of day is blank has its node at 00:00 of its
\* day.
C27_UnparseableIsMissing ==
    (pc = "done" /\ pre.file.suffix = ".wel" /\ IsSubset(pre.series)
        /\ DistinctTimestamps(pre.file)) =>
        LET rows == DataRows(pre.file)
            names == IF pre.series = <<>>
                     THEN [j \in DOMAIN Columns |-> Columns[j].name]
                     ELSE pre.series
        IN  /\ err = ""
            /\ Len(ret.ret) = Len(names)
            /\ \A i \in DOMAIN rows, k \in DOMAIN names :
                  LET t == IF rows[i][1].time = <<>>
                           THEN DT(rows[i][1].date[3], rows[i][1].date[2],
                                   rows[i][1].date[1], 0)
                           ELSE RowTimestamp(rows[i])
                      j == ColumnOf(names[k])
                  IN  /\ t \in DOMAIN ret.ret[k].nodes
                      /\ Unparseable(rows[i], j) =>
                            /\ ret.ret[k].nodes[t] = nan
                            /\ \E w \in DOMAIN ret.log :
                                  ret.log[w] = [timestamp |-> t, idx |-> j]
                      /\ ~Unparseable(rows[i], j) =>
                            ret.ret[k].nodes[t] = RowValue(rows[i], j)

\* C27 witness: read_wel has read a file whose first row has a blank time
\* of day and a text that is no number as value of A, followed by a second
\* row, with A among the names asked for.
C27_Witness ==
    /\ pc = "done"
    /\ op.name = "read_wel"
    /\ pre.file.suffix = ".wel"
    /\ Len(DataRows(pre.file)) = 2
    /\ DataRows(pre.file)[1][1].time = <<>>
    /\ DataRows(pre.file)[1][2] = TextTok
    /\ pre.series = <<"C", "A">>
    /\ err = ""
    /\ ret.log # <<>>
    /\ DOMAIN ret.ret[2].nodes
          = {RowTimestamp(DataRows(pre.file)[i]) : i \in 1 .. 2}

====
